---- MODULE Spec2Model ----
(***************************************************************************)
(* VecStream: the HNSW graph index (vecstream/hnsw_index.py), the flat     *)
(* store with its binary persistence (vector_store.py, binary_store.py)    *)
(* and the Collection that binds them (collections.py).                    *)
(*                                                                         *)
(* Similarities and distances are cosine values in hundredths: the model's *)
(* vectors have integer norms whose products divide 100, so every value    *)
(* the code computes in floating point is exact here.                      *)
(***************************************************************************)
EXTENDS Integers, Sequences, FiniteSets, TLC

\* ------------------------------------------------------------------ values

\* Vector IDs.  Python compares the (distance, id) tuples of the heaps by
\* distance first and by the id string second; IdSeq lists the IDs in
\* string order.
IdSeq == <<"a", "b", "c">>
IDs == {IdSeq[n] : n \in 1..Len(IdSeq)}
IdRanks == [i \in IDs |-> CHOOSE n \in 1..Len(IdSeq) : IdSeq[n] = i]
IdRank(i) == IdRanks[i]

\* Python's None, where an ID is expected (HNSWIndex.ep).
NoneId == "None"
\* Python's None, where an integer is expected (dimension, ef_search).
NoneInt == -1

\* The vectors offered to the program: three directions in the plane, the
\* opposite of the first, the zero vector, and one vector of another length.
VX == <<1, 0>>
VD == <<3, 4>>
VY == <<0, 1>>
VN == <<-1, 0>>
VZ == <<0, 0>>
V1 == <<2>>
Vectors2 == {VX, VD, VY, VN, VZ}
Vectors == Vectors2 \cup {V1}

\* The members of set S in the order ord; the order in which Python iterates a
\* set of strings is not fixed (string hashes are randomised per process).
IterOrder(S, ord) ==
    LET Member(x) == x \in S IN SelectSeq(ord, Member)

\* dict helpers: d[k] = v, del d[k]
Put(d, k, v) == [x \in DOMAIN d \cup {k} |-> IF x = k THEN v ELSE d[x]]
Del(d, k) == [x \in DOMAIN d \ {k} |-> d[x]]
EmptyDict == [x \in {} |-> 0]
\* list.remove for the key lists that record dict insertion order
RECURSIVE SeqDel(_, _)
SeqDel(s, k) ==
    IF s = <<>> THEN <<>>
    ELSE IF Head(s) = k THEN Tail(s)
    ELSE <<Head(s)>> \o SeqDel(Tail(s), k)

\* ------------------------------------------------------- cosine arithmetic

RECURSIVE DotFrom(_, _, _)
DotFrom(a, b, n) ==
    IF n > Len(a) THEN 0 ELSE a[n] * b[n] + DotFrom(a, b, n + 1)
\* np.dot(a, b) for two vectors of the same length
Dot(a, b) == DotFrom(a, b, 1)
\* np.linalg.norm(a); the model's vectors have integer norms
Norm(a) == CHOOSE n \in 0..5 : n * n = Dot(a, a)
\* np.dot raises ValueError when the lengths differ; _distance and
\* search_similar reach it only when neither norm is zero
DotRaises(a, b) == Len(a) # Len(b)

\* q . v / (|q| |v|) in hundredths
Cosine(a, b) == (100 * Dot(a, b)) \div (Norm(a) * Norm(b))

Clamp(x) == IF x < 0 THEN 0 ELSE IF x > 200 THEN 200 ELSE x

\* HNSWIndex._distance, in hundredths: [err, d]
distance(a, b) ==
    IF Norm(a) = 0 \/ Norm(b) = 0 THEN [err |-> "none", d |-> 100]
    ELSE IF DotRaises(a, b) THEN [err |-> "ValueError", d |-> 0]
    ELSE [err |-> "none", d |-> Clamp(100 - Cosine(a, b))]
\* _distance over the model's vectors, computed once
Distances == [p \in Vectors \X Vectors |-> distance(p[1], p[2])]
Distance(a, b) == Distances[<<a, b>>].d
DistanceRaises(a, b) == Distances[<<a, b>>].err # "none"

\* ------------------------------------------------------------- HNSWIndex

\* HNSWIndex parameters (hnsw_params of the collection).  M = 1 makes the
\* degree caps (M above level 0, 2M at level 0) bite on three nodes.
M == 1
M_max0 == M * 2
ef_construction == 200
ml == 1
Levels == 0..ml

\* HNSWIndex.__init__.  keys is the insertion order of the nodes and
\* node_levels dicts (both get and lose their keys together).
NewIndex ==
    [built |-> FALSE, nodes |-> EmptyDict, node_levels |-> EmptyDict, keys |-> <<>>,
     graphs |-> [l \in Levels |-> EmptyDict], ep |-> NoneId]

\* heap entries are <<distance, id>>
EntryLess(x, y) == x[1] < y[1] \/ (x[1] = y[1] /\ IdRank(x[2]) < IdRank(y[2]))
\* heappop of the candidates min-heap: least (distance, id)
Nearest(S) == CHOOSE x \in S : \A y \in S : y = x \/ EntryLess(x, y)
\* results[0] of the results heap, which holds (-distance, id): the greatest
\* distance, and among equal distances the least id
Furthest(S) ==
    CHOOSE x \in S : \A y \in S :
        y = x \/ x[1] > y[1] \/ (x[1] = y[1] /\ IdRank(x[2]) < IdRank(y[2]))

\* self.graphs[level].get(c_id, set())
NeighborsOf(h, level, id) ==
    IF id \in DOMAIN h.graphs[level] THEN h.graphs[level][id] ELSE {}

Inf == 1000

\* _search_layer lines 91-103: the loop over one candidate's neighbours, nb
\* being the neighbours still to visit, in iteration order
RECURSIVE VisitNeighbors(_, _, _, _, _, _)
VisitNeighbors(h, q, ef, furthest_dist, nb, st) ==
    IF nb = <<>> \/ st.err # "none" THEN st
    ELSE LET n == Head(nb) IN
        IF n \in st.visited THEN VisitNeighbors(h, q, ef, furthest_dist, Tail(nb), st)
        ELSE IF n \notin DOMAIN h.nodes THEN [st EXCEPT !.err = "KeyError"]
        ELSE IF DistanceRaises(q, h.nodes[n]) THEN [st EXCEPT !.err = "ValueError"]
        ELSE LET d == Distance(q, h.nodes[n])
                 seen == [st EXCEPT !.visited = @ \cup {n}]
                 pushed == [seen EXCEPT !.candidates = @ \cup {<<d, n>>},
                                        !.results = @ \cup {<<d, n>>}]
                 popped == IF Cardinality(pushed.results) > ef
                           THEN [pushed EXCEPT !.results = @ \ {Furthest(@)}]
                           ELSE pushed
             IN VisitNeighbors(h, q, ef, furthest_dist, Tail(nb),
                    IF Cardinality(st.results) < ef \/ d < furthest_dist
                    THEN popped ELSE seen)

\* _search_layer lines 80-103: the loop over the candidates heap
RECURSIVE Expand(_, _, _, _, _, _)
Expand(h, q, ef, level, ord, st) ==
    IF st.candidates = {} \/ st.err # "none" THEN st
    ELSE LET c == Nearest(st.candidates)
             furthest_dist == IF st.results = {} THEN Inf ELSE Furthest(st.results)[1]
             rest == [st EXCEPT !.candidates = @ \ {c}]
         IN IF c[1] > furthest_dist /\ Cardinality(st.results) >= ef THEN rest
            ELSE Expand(h, q, ef, level, ord,
                     VisitNeighbors(h, q, ef, furthest_dist,
                         IterOrder(NeighborsOf(h, level, c[2]), ord), rest))

\* sorted() of the results heap's (-distance, id) entries, lines 105-106
RECURSIVE SortedResults(_)
SortedResults(S) ==
    IF S = {} THEN <<>>
    ELSE LET x == Furthest(S) IN <<x>> \o SortedResults(S \ {x})

\* _search_layer lines 69-78: the visited set and the two heaps, d0 being
\* the distance of the entry point
StartAt(ep, d0) ==
    [visited |-> {ep}, candidates |-> {<<d0, ep>>}, results |-> {<<d0, ep>>},
     err |-> "none"]
\* _search_layer line 106 on what the loop left
Returned(st) ==
    IF st.err # "none" THEN [err |-> st.err, res |-> <<>>]
    ELSE [err |-> "none", res |-> SortedResults(st.results)]

\* HNSWIndex._search_layer: [err, res], res the list of <<distance, id>>
search_layer(h, q, ep, ef, level, ord) ==
    IF ep \notin DOMAIN h.nodes THEN [err |-> "KeyError", res |-> <<>>]
    ELSE IF DistanceRaises(q, h.nodes[ep]) THEN [err |-> "ValueError", res |-> <<>>]
    ELSE Returned(Expand(h, q, ef, level, ord, StartAt(ep, Distance(q, h.nodes[ep]))))

\* The degree cap of a level: M_max0 at level 0, M above
Cap(level) == IF level = 0 THEN M_max0 ELSE M

Min(x, y) == IF x < y THEN x ELSE y
Max(x, y) == IF x > y THEN x ELSE y

\* HNSWIndex._select_neighbors: the ids of the Mcap nearest of the
\* <<distance, id>> entries in S, nearest first
RECURSIVE select_neighbors(_, _)
select_neighbors(S, Mcap) ==
    IF S = {} \/ Mcap <= 0 THEN <<>>
    ELSE LET x == Nearest(S) IN <<x[2]>> \o select_neighbors(S \ {x}, Mcap - 1)

SeqToSet(s) == {s[n] : n \in 1..Len(s)}

\* add_item lines 181-188: cut neighbour n's set at this level back to the
\* cap's nearest members when it has grown past the cap
Prune(h, level, n) ==
    LET own == h.graphs[level][n] IN
    IF Cardinality(own) <= Cap(level) THEN [h |-> h, err |-> "none"]
    ELSE IF \E m \in own : m \notin DOMAIN h.nodes THEN [h |-> h, err |-> "KeyError"]
    ELSE IF \E m \in own : DistanceRaises(h.nodes[n], h.nodes[m])
         THEN [h |-> h, err |-> "ValueError"]
    ELSE LET neighbor_candidates == {<<Distance(h.nodes[n], h.nodes[m]), m>> : m \in own}
             keep_neighbors == select_neighbors(neighbor_candidates, Cap(level))
         IN [h |-> [h EXCEPT !.graphs[level][n] = SeqToSet(keep_neighbors)],
             err |-> "none"]

\* add_item lines 171-188: link id with each selected neighbour in turn
RECURSIVE Connect(_, _, _, _)
Connect(h, id, level, neighbors) ==
    IF neighbors = <<>> THEN [h |-> h, err |-> "none"]
    ELSE LET n == Head(neighbors)
             out == [h EXCEPT !.graphs[level][id] = @ \cup {n}]
             back == [out EXCEPT !.graphs[level] =
                         Put(@, n, NeighborsOf(out, level, n) \cup {id})]
             pruned == Prune(back, level, n)
         IN IF pruned.err # "none" THEN pruned
            ELSE Connect(pruned.h, id, level, Tail(neighbors))

\* add_item lines 154-157 and search lines 262-265: for level in
\* range(level, stop, -1), move ep to the nearest node found with ef = 1
RECURSIVE Descend(_, _, _, _, _, _)
\* ... res being what _search_layer returned at this level
DescendFrom(h, q, ep, level, stop, ord, res) ==
    IF res.err # "none" THEN [err |-> res.err, ep |-> ep]
    ELSE Descend(h, q, IF res.res # <<>> THEN res.res[1][2] ELSE ep,
             level - 1, stop, ord)
Descend(h, q, ep, level, stop, ord) ==
    IF level <= stop THEN [err |-> "none", ep |-> ep]
    ELSE DescendFrom(h, q, ep, level, stop, ord, search_layer(h, q, ep, 1, level, ord))

\* add_item lines 160-191: for level in range(level, -1, -1)
RECURSIVE InsertLevels(_, _, _, _, _, _)
\* ... line 191 and the levels below, linked being what the connection loop
\* left at this level
InsertBelow(linked, id, vector, level, ord) ==
    IF linked.err # "none" THEN linked
    ELSE InsertLevels(linked.h, id, vector, id, level - 1, ord)
\* ... lines 164-188 at one level, W being what _search_layer returned
InsertAt(h, id, vector, level, ord, W) ==
    IF W.err # "none" THEN [h |-> h, err |-> W.err]
    ELSE InsertBelow(Connect(IF id \in DOMAIN h.graphs[level] THEN h
                             ELSE [h EXCEPT !.graphs[level] = Put(@, id, {})],
                         id, level, select_neighbors(SeqToSet(W.res), Cap(level))),
             id, vector, level, ord)
InsertLevels(h, id, vector, ep, level, ord) ==
    IF level < 0 THEN [h |-> h, err |-> "none"]
    ELSE InsertAt(h, id, vector, level, ord,
             search_layer(h, vector, ep, ef_construction, level, ord))

\* add_item lines 193-195: the new node becomes the entry point when its
\* level is above the entry point's, done being what the insertion loop left
Promote(done, id, l, ep_level) ==
    IF done.err # "none" THEN done
    ELSE [h |-> IF l > ep_level THEN [done.h EXCEPT !.ep = id] ELSE done.h,
          err |-> "none"]
\* add_item lines 160-195, top being where the descent of lines 154-157 ended
InsertFrom(h1, id, vector, l, ep_level, ord, top) ==
    IF top.err # "none" THEN [h |-> h1, err |-> top.err]
    ELSE Promote(InsertLevels(h1, id, vector, top.ep, Min(l, ep_level), ord),
             id, l, ep_level)

\* add_item that draws a level again for an id it already holds
add_itemMutant(h, id, vector, l, ord) ==
    [h |-> [h EXCEPT !.nodes = Put(@, id, vector), !.node_levels = Put(@, id, l),
                     !.keys = IF id \in DOMAIN h.nodes THEN @ ELSE Append(@, id)],
     err |-> "none"]
\* HNSWIndex.add_item, l being min(_get_random_level(), ml): [h, err]
add_item(h, id, vector, l, ord) ==
    IF id \in DOMAIN h.nodes
    THEN [h |-> [h EXCEPT !.nodes[id] = vector], err |-> "none"]
    ELSE LET h1 == [h EXCEPT !.nodes = Put(@, id, vector),
                             !.node_levels = Put(@, id, l),
                             !.keys = Append(@, id)]
         IN IF h1.ep = NoneId
            THEN [h |-> [h1 EXCEPT !.ep = id,
                             !.graphs = [level \in Levels |->
                                 IF level <= l THEN Put(h1.graphs[level], id, {})
                                 ELSE h1.graphs[level]]],
                  err |-> "none"]
            ELSE InsertFrom(h1, id, vector, l, h1.node_levels[h1.ep], ord,
                     Descend(h1, vector, h1.ep, Min(h1.node_levels[h1.ep], ml), l, ord))

\* remove_item lines 214-217 at one level, g being graphs[level] and own the
\* node's neighbours there.  When the node is its own neighbour the loop
\* discards from the set it is iterating, and Python raises RuntimeError (set
\* changed size during iteration) on the step after it; before holds the
\* neighbours that the iteration, whose order is not fixed, reached earlier.
Discard(g, id, from) ==
    [n \in DOMAIN g |-> IF n \in from THEN g[n] \ {id} ELSE g[n]]
DiscardFrom(g, id, own, before) ==
    IF id \in own
    THEN [g |-> Discard(g, id, (before \cap own) \cup {id}), err |-> "RuntimeError"]
    ELSE [g |-> Discard(g, id, own), err |-> "none"]

\* remove_item lines 212-221: for level in range(level, top + 1)
RECURSIVE RemoveLevels(_, _, _, _, _)
RemoveLevels(h, id, level, top, before) ==
    IF level > top THEN [h |-> h, err |-> "none"]
    ELSE LET r == DiscardFrom(h.graphs[level], id, NeighborsOf(h, level, id), before)
         IN IF r.err # "none"
            THEN [h |-> [h EXCEPT !.graphs[level] = r.g], err |-> r.err]
            ELSE RemoveLevels([h EXCEPT !.graphs[level] = Del(r.g, id)],
                     id, level + 1, top, before)

\* The neighbours that share id's set at the lowest level where id is its own
\* neighbour: the ones the loop of lines 214-217 may or may not reach before
\* it reaches id.
RECURSIVE SelfLoopRest(_, _, _)
SelfLoopRest(h, id, level) ==
    IF id \notin DOMAIN h.nodes \/ level > h.node_levels[id] THEN {}
    ELSE IF id \in NeighborsOf(h, level, id) THEN NeighborsOf(h, level, id) \ {id}
    ELSE SelfLoopRest(h, id, level + 1)

\* remove_item lines 233-239: the first node, in dict order, of the highest
\* level
RECURSIVE NewEntryPoint(_, _, _, _)
NewEntryPoint(h, keys, max_level, new_ep) ==
    IF keys = <<>> THEN new_ep
    ELSE IF h.node_levels[Head(keys)] > max_level
         THEN NewEntryPoint(h, Tail(keys), h.node_levels[Head(keys)], Head(keys))
    ELSE NewEntryPoint(h, Tail(keys), max_level, new_ep)

\* HNSWIndex.remove_item: [h, err]
remove_itemMutant(h, id, before) ==
    IF id \notin DOMAIN h.nodes THEN [h |-> h, err |-> "KeyError"]
    ELSE [h |-> h, err |-> "none"]
remove_item(h, id, before) ==
    IF id \notin DOMAIN h.nodes THEN [h |-> h, err |-> "KeyError"]
    ELSE LET cut == RemoveLevels(h, id, 0, h.node_levels[id], before) IN
        IF cut.err # "none" THEN cut
        ELSE LET gone == [cut.h EXCEPT !.nodes = Del(@, id),
                                       !.node_levels = Del(@, id),
                                       !.keys = SeqDel(@, id)]
             IN [h |-> IF gone.ep # id THEN gone
                       ELSE IF gone.keys = <<>> THEN [gone EXCEPT !.ep = NoneId]
                       ELSE [gone EXCEPT !.ep = NewEntryPoint(gone, gone.keys, -1, NoneId)],
                 err |-> "none"]

\* candidates[:k] as (id, similarity) pairs, search lines 271-277
RECURSIVE TopK(_, _)
TopK(candidates, k) ==
    IF candidates = <<>> \/ k <= 0 THEN <<>>
    ELSE <<<<Head(candidates)[2], 100 - Head(candidates)[1]>>>>
         \o TopK(Tail(candidates), k - 1)

\* search lines 271-277 on what the search of layer 0 returned
Found(candidates, k) ==
    IF candidates.err # "none" THEN [err |-> candidates.err, res |-> <<>>]
    ELSE [err |-> "none", res |-> TopK(candidates.res, k)]
\* search lines 268-277, top being where the descent of lines 262-265 ended
SearchFrom(h, query, k, ef, ord, top) ==
    IF top.err # "none" THEN [err |-> top.err, res |-> <<>>]
    ELSE Found(search_layer(h, query, top.ep, ef, 0, ord), k)

\* HNSWIndex.search: [err, res], res the list of <<id, similarity>>
search(h, query, k, ef_search, ord) ==
    IF h.keys = <<>> \/ h.ep = NoneId THEN [err |-> "none", res |-> <<>>]
    ELSE SearchFrom(h, query, k,
             Max(k, IF ef_search = NoneInt THEN ef_construction ELSE ef_search), ord,
             Descend(h, query, h.ep, h.node_levels[h.ep], 0, ord))

\* ------------------------------------------ VectorStore, BinaryVectorStore

\* Metadata dicts are sets of <<key, value>> pairs with distinct keys; None is
\* the one value that is no such set.  A value is a str, a bool, an int or a
\* nested dict, which json.dump and json.load give back unchanged; type is
\* the Python type's name.
Str(s) == [isdict |-> FALSE, type |-> "str", str |-> s, num |-> 0, dict |-> {}]
Obj(d) == [isdict |-> TRUE, type |-> "dict", str |-> "", num |-> 0, dict |-> d]
Bool(b) ==
    [isdict |-> FALSE, type |-> "bool", str |-> "", num |-> IF b THEN 1 ELSE 0, dict |-> {}]
Num(n) == [isdict |-> FALSE, type |-> "int", str |-> "", num |-> n, dict |-> {}]
\* None as a value
PyNone == [isdict |-> FALSE, type |-> "NoneType", str |-> "", num |-> 0, dict |-> {}]
\* Python's a == b: bool is a subclass of int and compares by its number, two
\* dicts are equal when they hold the same keys with equal values, and
\* values of unrelated types are unequal
RECURSIVE PyEq(_, _)
PyEq(a, b) ==
    IF a.type \in {"bool", "int"} /\ b.type \in {"bool", "int"} THEN a.num = b.num
    ELSE IF a.isdict /\ b.isdict
    THEN /\ {kv[1] : kv \in a.dict} = {kv[1] : kv \in b.dict}
         /\ \A kv \in a.dict, kw \in b.dict : kv[1] = kw[1] => PyEq(kv[2], kw[2])
    ELSE a = b
NoneMeta == {<<>>}
MetaRed == {<<"color", Str("red")>>}
\* Python truthiness of a metadata or filter argument: None and {} are false
Truthy(m) == m # NoneMeta /\ m # {}

\* VectorStore.__init__ and BinaryVectorStore.__init__ before _load_store;
\* keys is the insertion order of the vectors dict
NewStore ==
    [vectors |-> EmptyDict, keys |-> <<>>, metadata |-> EmptyDict, dimension |-> NoneInt]
\* The collection's directory: metadata.json and vectors.npy with what they
\* hold; bad_metadata and bad_vectors say that the file cannot be decoded
NoDisk ==
    [exists |-> FALSE, vectors |-> EmptyDict, keys |-> <<>>, metadata |-> EmptyDict,
     bad_metadata |-> FALSE, bad_vectors |-> FALSE]

\* add_vector without the comparison of lengths of line 30
VectorStore_add_vectorMutant(s, id, vector) ==
    [s |-> [s EXCEPT !.dimension = IF @ = NoneInt THEN Len(vector) ELSE @,
                     !.vectors = Put(@, id, vector),
                     !.keys = IF id \in DOMAIN s.vectors THEN @ ELSE Append(@, id)],
     err |-> "none"]
\* VectorStore.add_vector: [s, err]
VectorStore_add_vector(s, id, vector) ==
    IF s.dimension # NoneInt /\ Len(vector) # s.dimension
    THEN [s |-> s, err |-> "ValueError"]
    ELSE [s |-> [s EXCEPT !.dimension = Len(vector),
                          !.vectors = Put(@, id, vector),
                          !.keys = IF id \in DOMAIN s.vectors THEN @ ELSE Append(@, id)],
          err |-> "none"]

\* remove_vector that passes over an id it does not hold
VectorStore_remove_vectorMutant(s, id) ==
    [s |-> [s EXCEPT !.vectors = IF id \in DOMAIN @ THEN Del(@, id) ELSE @,
                     !.keys = SeqDel(@, id)],
     err |-> "none"]
\* VectorStore.remove_vector: [s, err]
VectorStore_remove_vector(s, id) ==
    IF id \notin DOMAIN s.vectors THEN [s |-> s, err |-> "KeyError"]
    ELSE [s |-> [s EXCEPT !.vectors = Del(@, id), !.keys = SeqDel(@, id)],
          err |-> "none"]

\* BinaryVectorStore._save_store: the files as json.dump and np.save write them
save_store(s) ==
    [exists |-> TRUE, vectors |-> s.vectors, keys |-> s.keys, metadata |-> s.metadata,
     bad_metadata |-> FALSE, bad_vectors |-> FALSE]

\* _save_store when a write raises, which lines 62-63 catch.  at says where:
\* "open" at the open of line 57 (nothing written), "dump" in json.dump (the
\* sidecar is left cut short), "save_open" at the open of np.save (the sidecar
\* is new, the blob old), "save" inside np.save (the blob is left cut short).
save_store_at(s, disk, at) ==
    CASE at = "open" -> disk
      [] at = "dump" -> [disk EXCEPT !.exists = TRUE, !.bad_metadata = TRUE]
      [] at = "save_open" ->
            [disk EXCEPT !.exists = TRUE, !.metadata = s.metadata, !.bad_metadata = FALSE]
      [] at = "save" ->
            [disk EXCEPT !.exists = TRUE, !.metadata = s.metadata, !.bad_metadata = FALSE,
                         !.bad_vectors = TRUE]
      [] OTHER -> save_store(s)

\* _load_store that keeps the metadata it read before np.load raised
load_storeMutant(disk) ==
    IF ~disk.exists \/ disk.bad_metadata THEN NewStore
    ELSE IF disk.bad_vectors THEN [NewStore EXCEPT !.metadata = disk.metadata]
    ELSE [vectors |-> disk.vectors, keys |-> disk.keys, metadata |-> disk.metadata,
          dimension |-> IF disk.keys = <<>> THEN NoneInt
                        ELSE Len(disk.vectors[disk.keys[1]])]
\* BinaryVectorStore.__init__ with _load_store: the store a new process builds
\* from the directory; the dimension is the length of the first vector.  A
\* file that cannot be decoded raises inside the try of line 34, and lines
\* 48-51 leave the store empty.
load_store(disk) ==
    IF ~disk.exists \/ disk.bad_metadata \/ disk.bad_vectors THEN NewStore
    ELSE [vectors |-> disk.vectors, keys |-> disk.keys, metadata |-> disk.metadata,
          dimension |-> IF disk.keys = <<>> THEN NoneInt
                        ELSE Len(disk.vectors[disk.keys[1]])]

\* BinaryVectorStore.add_vector: [s, disk, err]
BinaryVectorStore_add_vector(s, disk, id, vector, metadata) ==
    LET added == VectorStore_add_vector(s, id, vector) IN
    IF added.err # "none" THEN [s |-> s, disk |-> disk, err |-> added.err]
    ELSE LET s1 == IF Truthy(metadata)
                   THEN [added.s EXCEPT !.metadata = Put(@, id, metadata)]
                   ELSE added.s
         IN [s |-> s1, disk |-> save_store(s1), err |-> "none"]

\* remove_vector without the _save_store of line 96
BinaryVectorStore_remove_vectorMutant(s, disk, id) ==
    LET cut == VectorStore_remove_vector(s, id) IN
    IF cut.err # "none" THEN [s |-> s, disk |-> disk, err |-> cut.err]
    ELSE [s |-> [cut.s EXCEPT !.metadata = IF id \in DOMAIN @ THEN Del(@, id) ELSE @],
          disk |-> disk, err |-> "none"]
\* BinaryVectorStore.remove_vector: [s, disk, err]
BinaryVectorStore_remove_vector(s, disk, id) ==
    LET cut == VectorStore_remove_vector(s, id) IN
    IF cut.err # "none" THEN [s |-> s, disk |-> disk, err |-> cut.err]
    ELSE LET s1 == [cut.s EXCEPT !.metadata =
                        IF id \in DOMAIN @ THEN Del(@, id) ELSE @]
         IN [s |-> s1, disk |-> save_store(s1), err |-> "none"]

\* add_vector and remove_vector when the write of _save_store raises at `at`:
\* done is the outcome of the call with a write that succeeds
WhenSaveFails(done, disk, at) ==
    IF done.err # "none" THEN done
    ELSE [s |-> done.s, disk |-> save_store_at(done.s, disk, at), err |-> "none"]

\* self.metadata.get(id) of get_vector_with_metadata
metadata_get(s, id) == IF id \in DOMAIN s.metadata THEN s.metadata[id] ELSE NoneMeta

\* The similarity VectorStore.search_similar computes, in hundredths: the dot
\* product of the normalised vectors, a zero vector being left as it is
Similarity(q, v) == IF Norm(q) = 0 \/ Norm(v) = 0 THEN 0 ELSE Cosine(q, v)

\* list.sort(key = similarity, reverse = True): stable, so entries of equal
\* similarity keep their order.  Entries are <<id, similarity>>.
RECURSIVE InsertDesc(_, _)
InsertDesc(sorted, e) ==
    IF sorted = <<>> THEN <<e>>
    ELSE IF Head(sorted)[2] >= e[2] THEN <<Head(sorted)>> \o InsertDesc(Tail(sorted), e)
    ELSE <<e>> \o sorted
RECURSIVE SortDesc(_, _)
SortDesc(entries, sorted) ==
    IF entries = <<>> THEN sorted
    ELSE SortDesc(Tail(entries), InsertDesc(sorted, Head(entries)))

\* seq[:k] for k >= 0
Take(seq, k) == SubSeq(seq, 1, Min(k, Len(seq)))

\* VectorStore.search_similar lines 87-97: the entries that reach the threshold
RECURSIVE Similarities(_, _, _, _)
Similarities(s, query, threshold, keys) ==
    IF keys = <<>> THEN <<>>
    ELSE LET similarity == Similarity(query, s.vectors[Head(keys)])
             rest == Similarities(s, query, threshold, Tail(keys))
         IN IF similarity >= threshold THEN <<<<Head(keys), similarity>>>> \o rest
            ELSE rest

\* search_similar without the sort of line 100
VectorStore_search_similarMutant(s, query, k, threshold) ==
    IF s.keys = <<>> THEN [err |-> "none", res |-> <<>>]
    ELSE IF Len(query) # s.dimension THEN [err |-> "ValueError", res |-> <<>>]
    ELSE [err |-> "none", res |-> Take(Similarities(s, query, threshold, s.keys), k)]
\* VectorStore.search_similar: [err, res]
VectorStore_search_similar(s, query, k, threshold) ==
    IF s.keys = <<>> THEN [err |-> "none", res |-> <<>>]
    ELSE IF Len(query) # s.dimension THEN [err |-> "ValueError", res |-> <<>>]
    ELSE [err |-> "none",
          res |-> Take(SortDesc(Similarities(s, query, threshold, s.keys), <<>>), k)]

\* ------------------------------------------------------------- Collection

\* A collection c is [use_hnsw, store, disk, hnsw_index]; hnsw_index.built is
\* FALSE while Collection.hnsw_index is None.

\* _init_hnsw_index lines 61-62: add every stored vector in dict order,
\* levels[id] being the level add_item draws for id
RECURSIVE AddAll(_, _, _, _)
AddAll(h, s, keys, levels) ==
    IF keys = <<>> THEN [h |-> h, err |-> "none"]
    ELSE LET r == add_item(h, Head(keys), s.vectors[Head(keys)], levels[Head(keys)], IdSeq)
         IN IF r.err # "none" THEN r ELSE AddAll(r.h, s, Tail(keys), levels)

\* Collection._init_hnsw_index on store s: [h, err]
init_hnsw_index(s, levels) ==
    IF s.dimension = NoneInt THEN [h |-> NewIndex, err |-> "none"]
    ELSE AddAll([NewIndex EXCEPT !.built = TRUE], s, s.keys, levels)

\* Collection.__init__ over the directory: [c, err]
Collection_init(hnsw, d, levels) ==
    LET s == load_store(d)
        r == IF hnsw THEN init_hnsw_index(s, levels) ELSE [h |-> NewIndex, err |-> "none"]
    IN [c |-> [use_hnsw |-> hnsw, store |-> s, disk |-> d, hnsw_index |-> r.h],
        err |-> r.err]

\* Collection.add_vector: [c, err]
Collection_add_vector(c, id, vector, metadata, levels) ==
    LET put == BinaryVectorStore_add_vector(c.store, c.disk, id, vector, metadata)
        c1 == [c EXCEPT !.store = put.s, !.disk = put.disk]
    IN IF put.err # "none" THEN [c |-> c, err |-> put.err]
       ELSE IF ~c.use_hnsw THEN [c |-> c1, err |-> "none"]
       ELSE LET r == IF ~c.hnsw_index.built THEN init_hnsw_index(put.s, levels)
                     ELSE add_item(c.hnsw_index, id, vector, levels[id], IdSeq)
            IN [c |-> [c1 EXCEPT !.hnsw_index = r.h], err |-> r.err]

\* Collection.remove_vector: [c, err]; only KeyError of remove_item is caught
Collection_remove_vector(c, id, before) ==
    LET cut == BinaryVectorStore_remove_vector(c.store, c.disk, id)
        c1 == [c EXCEPT !.store = cut.s, !.disk = cut.disk]
    IN IF cut.err # "none" THEN [c |-> c, err |-> cut.err]
       ELSE IF ~(c.use_hnsw /\ c.hnsw_index.built) THEN [c |-> c1, err |-> "none"]
       ELSE LET r == remove_item(c.hnsw_index, id, before)
            IN [c |-> [c1 EXCEPT !.hnsw_index = r.h],
                err |-> IF r.err = "KeyError" THEN "none" ELSE r.err]

\* key.split("."), for the keys of the model
Parts(key) ==
    CASE key = "user.name" -> <<"user", "name">>
      [] key = "user.name.first" -> <<"user", "name", "first">>
      [] OTHER -> <<key>>
\* "." in key
HasDot(key) == Len(Parts(key)) > 1
\* key in d and d[key], d a dict
Has(d, key) == \E kv \in d : kv[1] = key
Get(d, key) == (CHOOSE kv \in d : kv[1] = key)[2]

\* _matches_filter lines 165-172: the descent along parts[:-1]
RECURSIVE Walk(_, _)
Walk(current, parts) ==
    IF parts = <<>> THEN [match |-> TRUE, current |-> current]
    ELSE IF ~Has(current, Head(parts)) \/ ~Get(current, Head(parts)).isdict
         THEN [match |-> FALSE, current |-> current]
    ELSE Walk(Get(current, Head(parts)).dict, Tail(parts))
\* lines 174-179, w being where the descent ended and last = parts[-1]
LeafFails(w, last_part, value) ==
    \/ ~w.match
    \/ ~Has(w.current, last_part)
    \/ ~PyEq(Get(w.current, last_part), value)
\* lines 163-183: the body of the loop returns False for this key
KeyFails(metadata, key, value) ==
    IF HasDot(key)
    THEN LeafFails(Walk(metadata, SubSeq(Parts(key), 1, Len(Parts(key)) - 1)),
                   Parts(key)[Len(Parts(key))], value)
    ELSE ~Has(metadata, key) \/ ~PyEq(Get(metadata, key), value)

\* _matches_filter that looks every key up as it is written
matches_filterMutant(metadata, filter_query) ==
    \A kv \in filter_query : Has(metadata, kv[1]) /\ Get(metadata, kv[1]) = kv[2]
\* Collection._matches_filter: no key of the filter fails
matches_filter(metadata, filter_query) ==
    \A kv \in filter_query : ~KeyFails(metadata, kv[1], kv[2])
\* QueryEngine._matches_filter, the same text
QueryEngine_matches_filter(metadata, filter_query) == matches_filter(metadata, filter_query)

\* search_similar lines 120-128: the filter loop over the index's results
RECURSIVE FilterHnsw(_, _, _, _, _, _)
FilterHnsw(s, results, k, threshold, filter_metadata, filtered_results) ==
    IF results = <<>> THEN [err |-> "none", res |-> filtered_results]
    ELSE LET id == Head(results)[1]
             metadata == metadata_get(s, id)
             more == Append(filtered_results, Head(results))
         IN IF Head(results)[2] < threshold
            THEN FilterHnsw(s, Tail(results), k, threshold, filter_metadata, filtered_results)
            ELSE IF id \notin DOMAIN s.vectors THEN [err |-> "KeyError", res |-> <<>>]
            ELSE IF ~(Truthy(metadata) /\ matches_filter(metadata, filter_metadata))
            THEN FilterHnsw(s, Tail(results), k, threshold, filter_metadata, filtered_results)
            ELSE IF Len(more) >= k THEN [err |-> "none", res |-> more]
            ELSE FilterHnsw(s, Tail(results), k, threshold, filter_metadata, more)

\* search_similar lines 137-146: the filter loop over the store's results
RECURSIVE FilterFlat(_, _, _, _, _)
FilterFlat(s, all_results, k, filter_metadata, filtered_results) ==
    IF all_results = <<>> THEN filtered_results
    ELSE LET metadata == metadata_get(s, Head(all_results)[1])
             more == Append(filtered_results, Head(all_results))
         IN IF ~(Truthy(metadata) /\ matches_filter(metadata, filter_metadata))
            THEN FilterFlat(s, Tail(all_results), k, filter_metadata, filtered_results)
            ELSE IF Len(more) >= k THEN more
            ELSE FilterFlat(s, Tail(all_results), k, filter_metadata, more)

\* [(id, sim) for id, sim in results if sim >= threshold], line 131
RECURSIVE AtLeast(_, _)
AtLeast(results, threshold) ==
    IF results = <<>> THEN <<>>
    ELSE IF Head(results)[2] >= threshold
         THEN <<Head(results)>> \o AtLeast(Tail(results), threshold)
    ELSE AtLeast(Tail(results), threshold)

\* Collection.search_similar: [err, res], res the list of <<id, similarity>>
Collection_search_similar(c, query, k, threshold, ef_search, filter_metadata) ==
    IF c.use_hnsw /\ c.hnsw_index.built
    THEN LET results == search(c.hnsw_index, query,
                            IF filter_metadata = NoneMeta THEN k ELSE Max(k * 10, 100),
                            ef_search, IdSeq)
             filtered == FilterHnsw(c.store, results.res, k, threshold, filter_metadata, <<>>)
         IN IF results.err # "none" THEN results
            ELSE IF Truthy(filter_metadata)
            THEN [err |-> filtered.err, res |-> Take(filtered.res, k)]
            ELSE [err |-> "none", res |-> Take(AtLeast(results.res, threshold), k)]
    ELSE IF Truthy(filter_metadata)
    THEN LET all_results == VectorStore_search_similar(c.store, query,
                                Len(c.store.keys), threshold)
         IN IF all_results.err # "none" THEN all_results
            ELSE [err |-> "none",
                  res |-> Take(FilterFlat(c.store, all_results.res, k, filter_metadata, <<>>), k)]
    ELSE VectorStore_search_similar(c.store, query, k, threshold)

\* ------------------------------------------------ IndexManager, QueryEngine

\* IndexManager.index: None, or one row for each id of indexed_ids.  A row is
\* kept as the stored vector; Similarity divides by the norms, a zero row
\* staying zero (create_index lines 45-47).
NoneIndex == [built |-> FALSE, rows |-> <<>>]

\* An IndexManager is [store, use_hnsw, index, hnsw_index, indexed_ids].
\* IndexManager._create_hnsw_index, the text of Collection._init_hnsw_index
create_hnsw_index(s, levels) == init_hnsw_index(s, levels)

\* create_index lines 36-51, made being the outcome of _create_hnsw_index
CreatedWith(im, made) ==
    [im |-> [im EXCEPT !.indexed_ids = im.store.keys,
                       !.index = [built |-> TRUE,
                                  rows |-> [n \in 1..Len(im.store.keys) |->
                                               im.store.vectors[im.store.keys[n]]]],
                       !.hnsw_index = made.h],
     err |-> made.err]
\* IndexManager.create_index: [im, err]
create_index(im, levels) ==
    IF im.store.keys = <<>> THEN [im |-> im, err |-> "none"]
    ELSE CreatedWith(im, IF im.use_hnsw /\ im.store.dimension # NoneInt
                         THEN create_hnsw_index(im.store, levels)
                         ELSE [h |-> im.hnsw_index, err |-> "none"])

\* IndexManager.update_index: [im, err]
update_index(im, levels) ==
    IF ~im.index.built
       \/ DOMAIN im.store.vectors # {im.indexed_ids[n] : n \in 1..Len(im.indexed_ids)}
    THEN create_index(im, levels)
    ELSE [im |-> im, err |-> "none"]

\* _search_standard lines 143-150: the rows that reach the threshold
RECURSIVE RowSimilarities(_, _, _, _)
RowSimilarities(im, query, threshold, n) ==
    IF n > Len(im.index.rows) THEN <<>>
    ELSE LET sim == Similarity(query, im.index.rows[n])
             rest == RowSimilarities(im, query, threshold, n + 1)
         IN IF sim >= threshold THEN <<<<im.indexed_ids[n], sim>>>> \o rest ELSE rest

\* IndexManager._search_standard: [err, res]; np.dot raises on another length
search_standard(im, query, k, threshold) ==
    IF Len(query) # Len(im.index.rows[1]) THEN [err |-> "ValueError", res |-> <<>>]
    ELSE [err |-> "none",
          res |-> Take(SortDesc(RowSimilarities(im, query, threshold, 1), <<>>), k)]

\* search lines 116-120, results being what hnsw_index.search returned
AboveThreshold(results, threshold) ==
    IF results.err # "none" THEN results
    ELSE IF threshold > 0 THEN [err |-> "none", res |-> AtLeast(results.res, threshold)]
    ELSE results
\* IndexManager.search with the default ef_search: [err, res]
IndexManager_search(im, query, k, threshold) ==
    IF (~im.index.built /\ ~im.hnsw_index.built) \/ im.indexed_ids = <<>>
    THEN [err |-> "none", res |-> <<>>]
    ELSE IF im.use_hnsw /\ im.hnsw_index.built
    THEN AboveThreshold(search(im.hnsw_index, query, k, NoneInt, IdSeq), threshold)
    ELSE search_standard(im, query, k, threshold)

\* QueryEngine.search lines 47-54: the filter loop; get_vector_with_metadata
\* raises KeyError for an id the store does not hold
RECURSIVE FilterEngine(_, _, _, _, _)
FilterEngine(s, results, k, filter_metadata, filtered_results) ==
    IF results = <<>> THEN [err |-> "none", res |-> filtered_results]
    ELSE LET id == Head(results)[1]
             metadata == metadata_get(s, id)
             more == Append(filtered_results, Head(results))
         IN IF id \notin DOMAIN s.vectors THEN [err |-> "KeyError", res |-> <<>>]
            ELSE IF ~(Truthy(metadata) /\ QueryEngine_matches_filter(metadata, filter_metadata))
            THEN FilterEngine(s, Tail(results), k, filter_metadata, filtered_results)
            ELSE IF Len(more) >= k THEN [err |-> "none", res |-> more]
            ELSE FilterEngine(s, Tail(results), k, filter_metadata, more)
\* lines 47-56, results being what index_manager.search returned
Filtered(s, results, k, filter_metadata, filtered) ==
    IF results.err # "none" THEN results
    ELSE [err |-> filtered.err, res |-> Take(filtered.res, k)]
FilteredFrom(s, results, k, filter_metadata) ==
    Filtered(s, results, k, filter_metadata,
             FilterEngine(s, results.res, k, filter_metadata, <<>>))
\* lines 38-56, im being the manager after update_index
SearchUpdated(im, query, k, threshold, filter_metadata) ==
    IF filter_metadata = NoneMeta THEN IndexManager_search(im, query, k, threshold)
    ELSE FilteredFrom(im.store,
             IndexManager_search(im, query, Min(Max(k * 4, 100), Len(im.store.keys)),
                                 threshold),
             k, filter_metadata)
\* after line 35, u being the outcome of update_index
SearchAfter(u, query, k, threshold, filter_metadata, found) ==
    IF u.err # "none" THEN [im |-> u.im, err |-> u.err, res |-> <<>>]
    ELSE [im |-> u.im, err |-> found.err, res |-> found.res]
SearchWith(u, query, k, threshold, filter_metadata) ==
    SearchAfter(u, query, k, threshold, filter_metadata,
                SearchUpdated(u.im, query, k, threshold, filter_metadata))
\* QueryEngine.search: [im, err, res]
QueryEngine_search(im, query, k, threshold, filter_metadata, levels) ==
    SearchWith(update_index(im, levels), query, k, threshold, filter_metadata)

\* ------------------------------------------------------ CollectionManager

\* A manager is [use_hnsw, collections, collections_metadata, manifest, dirs]:
\* its default flag, its two dicts, the manifest file and the directories of
\* the collections with their files.  A handle is a Collection without its
\* directory; created_at is left out of the manifest entries.
NoManifest == [exists |-> FALSE, data |-> EmptyDict]
DefaultParams == [M |-> 16, ef_construction |-> 200]
Handle(c) == [use_hnsw |-> c.use_hnsw, store |-> c.store, hnsw_index |-> c.hnsw_index]
OnDir(h, d) ==
    [use_hnsw |-> h.use_hnsw, store |-> h.store, disk |-> d, hnsw_index |-> h.hnsw_index]
\* the files of collections/name, none when os.makedirs has just made it
DirOf(m, name) == IF name \in DOMAIN m.dirs THEN m.dirs[name] ELSE NoDisk

\* CollectionManager._load_metadata
load_metadata(file) == IF file.exists THEN file.data ELSE EmptyDict
\* _save_metadata that writes the names without their settings
save_metadataMutant(data) ==
    [exists |-> TRUE,
     data |-> [name \in DOMAIN data |->
                  [name |-> name, use_hnsw |-> TRUE, hnsw_params |-> DefaultParams]]]
\* CollectionManager._save_metadata
save_metadata(data) == [exists |-> TRUE, data |-> data]

\* CollectionManager.__init__ on the base directory: the two dicts
CollectionManager_init(file) ==
    [collections |-> EmptyDict, collections_metadata |-> load_metadata(file)]

\* create_collection lines 279-291, made being the outcome of Collection(...)
Created(m, name, flag, params, made) ==
    IF made.err # "none"
    THEN [m |-> [m EXCEPT !.dirs = Put(@, name, DirOf(m, name))], err |-> made.err]
    ELSE [m |-> [m EXCEPT
                   !.dirs = Put(@, name, DirOf(m, name)),
                   !.collections = Put(@, name, Handle(made.c)),
                   !.collections_metadata =
                       Put(@, name, [name |-> name, use_hnsw |-> flag, hnsw_params |-> params]),
                   !.manifest = save_metadata(
                       Put(m.collections_metadata, name,
                           [name |-> name, use_hnsw |-> flag, hnsw_params |-> params]))],
          err |-> "none"]
\* create_collection without the test of line 271
create_collectionMutant(m, name, use_hnsw_arg, hnsw_params_arg, levels) ==
    Created(m, name,
            IF use_hnsw_arg = "None" THEN m.use_hnsw ELSE use_hnsw_arg = "True",
            hnsw_params_arg,
            Collection_init(IF use_hnsw_arg = "None" THEN m.use_hnsw
                            ELSE use_hnsw_arg = "True", DirOf(m, name), levels))
\* CollectionManager.create_collection: [m, err]; use_hnsw_arg is "None",
\* "True" or "False", hnsw_params_arg the dict used (the default for None)
create_collection(m, name, use_hnsw_arg, hnsw_params_arg, levels) ==
    IF name \in DOMAIN m.collections \/ name \in DOMAIN m.collections_metadata
    THEN [m |-> m, err |-> "ValueError"]
    ELSE Created(m, name,
                 IF use_hnsw_arg = "None" THEN m.use_hnsw ELSE use_hnsw_arg = "True",
                 hnsw_params_arg,
                 Collection_init(IF use_hnsw_arg = "None" THEN m.use_hnsw
                                 ELSE use_hnsw_arg = "True", DirOf(m, name), levels))

\* get_collection lines 314-322, made being the outcome of Collection(...)
Loaded(m, name, made) ==
    IF made.err # "none"
    THEN [m |-> [m EXCEPT !.dirs = Put(@, name, DirOf(m, name))], err |-> made.err]
    ELSE [m |-> [m EXCEPT !.dirs = Put(@, name, DirOf(m, name)),
                          !.collections = Put(@, name, Handle(made.c))],
          err |-> "none"]
\* CollectionManager.get_collection: [m, err], the handle being
\* m.collections[name]
get_collection(m, name, levels) ==
    IF name \in DOMAIN m.collections THEN [m |-> m, err |-> "none"]
    ELSE IF name \notin DOMAIN m.collections_metadata THEN [m |-> m, err |-> "KeyError"]
    ELSE Loaded(m, name,
                Collection_init(m.collections_metadata[name].use_hnsw, DirOf(m, name), levels))

\* CollectionManager.list_collections, as a set
list_collections(m) == DOMAIN m.collections_metadata

\* delete_collection that leaves the directory where it is
delete_collectionMutant(m, name) ==
    IF name \notin DOMAIN m.collections_metadata THEN [m |-> m, err |-> "KeyError"]
    ELSE [m |-> [m EXCEPT !.collections = Del(@, name),
                          !.collections_metadata = Del(@, name),
                          !.manifest = save_metadata(Del(m.collections_metadata, name))],
          err |-> "none"]
\* CollectionManager.delete_collection: [m, err]
delete_collection(m, name) ==
    IF name \notin DOMAIN m.collections_metadata THEN [m |-> m, err |-> "KeyError"]
    ELSE [m |-> [m EXCEPT !.collections = Del(@, name),
                          !.collections_metadata = Del(@, name),
                          !.manifest = save_metadata(Del(m.collections_metadata, name)),
                          !.dirs = Del(@, name)],
          err |-> "none"]

\* get_collection(name).add_vector(id, vector, metadata), got being the
\* outcome of get_collection and put that of add_vector on its handle
AddedTo(got, name, put) ==
    [m |-> [got.m EXCEPT !.collections = Put(@, name, Handle(put.c)),
                         !.dirs = Put(@, name, put.c.disk)],
     err |-> put.err]
AddToHandle(got, name, id, vector, metadata, levels) ==
    IF got.err # "none" THEN got
    ELSE AddedTo(got, name,
                 Collection_add_vector(OnDir(got.m.collections[name], got.m.dirs[name]),
                                       id, vector, metadata, levels))

\* ------------------------------------------- vector_db: CommandInterface

\* vector_db.VectorStore.__init__
NewVectorDb == [vectors |-> EmptyDict, metadata |-> EmptyDict]
\* vector_db.VectorStore.add; vector is a list, metadata a JSON value or None,
\* kept only when it is truthy
vector_db_add(s, id, vector, metadata) ==
    [s EXCEPT !.vectors = Put(@, id, vector),
              !.metadata = IF metadata = PyNone \/ metadata = Num(0) THEN @
                           ELSE Put(@, id, metadata)]
\* vector_db.VectorStore.delete that forgets the metadata and keeps the vector
vector_db_deleteMutant(s, id) ==
    IF id \in DOMAIN s.vectors
    THEN [s |-> [s EXCEPT !.metadata = IF id \in DOMAIN @ THEN Del(@, id) ELSE @],
          success |-> TRUE]
    ELSE [s |-> s, success |-> FALSE]
\* vector_db.VectorStore.delete: [s, success]
vector_db_delete(s, id) ==
    IF id \in DOMAIN s.vectors
    THEN [s |-> [s EXCEPT !.vectors = Del(@, id),
                          !.metadata = IF id \in DOMAIN @ THEN Del(@, id) ELSE @],
          success |-> TRUE]
    ELSE [s |-> s, success |-> FALSE]
\* vector_db.VectorStore.count
vector_db_count(s) == Cardinality(DOMAIN s.vectors)

\* float(x) for the tokens of the model: [err, value]
Float(x) ==
    CASE x = "1" -> [err |-> "none", value |-> 1]
      [] x = "0" -> [err |-> "none", value |-> 0]
      [] OTHER -> [err |-> "ValueError", value |-> 0]
\* json.loads(" ".join(tokens)) for the tokens of the model: [err, value]
json_loads(tokens) ==
    IF Len(tokens) = 1 /\ Float(tokens[1]).err = "none"
    THEN [err |-> "none", value |-> Num(Float(tokens[1]).value)]
    ELSE [err |-> "JSONDecodeError", value |-> PyNone]
\* args.index("METADATA"), 0 when it is not in args
MetadataIdx(args) ==
    IF \A i \in 1..Len(args) : args[i] # "METADATA" THEN 0
    ELSE CHOOSE i \in 1..Len(args) :
            args[i] = "METADATA" /\ \A j \in 1..(i - 1) : args[j] # "METADATA"
\* str(n) and str(vector.tolist())
StrOfInt(n) ==
    CASE n = 0 -> "0" [] n = 1 -> "1" [] n = 2 -> "2" [] n = 3 -> "3" [] OTHER -> "4"
RECURSIVE Floats(_)
Floats(vector) ==
    IF vector = <<>> THEN ""
    ELSE (IF Head(vector) = 1 THEN "1.0" ELSE "0.0")
            \o (IF Len(vector) > 1 THEN ", " ELSE "") \o Floats(Tail(vector))
StrOfList(vector) == "[" \o Floats(vector) \o "]"

\* cmd_vector_add: [s, reply]
cmd_vector_add(s, args) ==
    IF Len(args) < 2 THEN [s |-> s, reply |-> "ERROR: VADD requires at least key and vector"]
    ELSE LET metadata_idx == MetadataIdx(args)
             vector_end_idx == IF metadata_idx = 0 THEN Len(args) ELSE metadata_idx - 1
             metadata == IF metadata_idx = 0 THEN [err |-> "none", value |-> PyNone]
                         ELSE json_loads(SubSeq(args, metadata_idx + 1, Len(args)))
             words == SubSeq(args, 2, vector_end_idx)
         IN IF metadata.err # "none" \/ \E i \in 1..Len(words) : Float(words[i]).err # "none"
            THEN [s |-> s, reply |-> "ERROR"]
            ELSE [s |-> vector_db_add(s, args[1],
                                      [i \in 1..Len(words) |-> Float(words[i]).value],
                                      metadata.value),
                  reply |-> "OK"]
\* cmd_vector_get
cmd_vector_get(s, args) ==
    IF Len(args) # 1 THEN [s |-> s, reply |-> "ERROR: VGET requires exactly one key"]
    ELSE IF args[1] \notin DOMAIN s.vectors THEN [s |-> s, reply |-> "(nil)"]
    ELSE [s |-> s, reply |-> StrOfList(s.vectors[args[1]])]
\* cmd_vector_delete
cmd_vector_delete(s, args) ==
    IF Len(args) # 1 THEN [s |-> s, reply |-> "ERROR: VDEL requires exactly one key"]
    ELSE [s |-> vector_db_delete(s, args[1]).s,
          reply |-> IF vector_db_delete(s, args[1]).success THEN "1" ELSE "0"]
\* cmd_vector_count
cmd_vector_count(s, args) == [s |-> s, reply |-> StrOfInt(vector_db_count(s))]

\* parts[0].upper() for the command words of the model
Upper(word) ==
    CASE word = "vadd" -> "VADD" [] word = "vdel" -> "VDEL" [] OTHER -> word
\* execute_command(cmd_line), parts being cmd_line.strip().split()
execute_command(s, parts) ==
    IF parts = <<>> THEN [s |-> s, reply |-> "ERROR: Empty command"]
    ELSE LET cmd == Upper(Head(parts))
             args == Tail(parts)
         IN CASE cmd = "VADD" -> cmd_vector_add(s, args)
              [] cmd = "VGET" -> cmd_vector_get(s, args)
              [] cmd = "VDEL" -> cmd_vector_delete(s, args)
              [] cmd = "VCOUNT" -> cmd_vector_count(s, args)
              [] OTHER -> [s |-> s, reply |-> "ERROR: Unknown command"]

\* ------------------------------------------------------------------ state

VARIABLES
    use_hnsw,     \* Collection.use_hnsw
    store,        \* Collection.store, the BinaryVectorStore
    disk,         \* the files of the collection's directory
    hnsw_index,   \* Collection.hnsw_index, or an HNSWIndex used on its own
    index,        \* IndexManager.index, the rows of the flat index
    indexed_ids,  \* IndexManager.indexed_ids
    collections,           \* CollectionManager.collections, the loaded handles
    collections_metadata,  \* CollectionManager.collections_metadata
    manifest,              \* the file collections_metadata.json
    dirs,                  \* the directories under collections/, by name
    created,      \* the names whose creation returned and that were not deleted since
    removed,      \* the ids whose removal returned and that were not added since
    threads,      \* VectorDBServer: where each client's handler thread stands
    last          \* the last call on the collection or the store, and how it ended

vars ==
    <<use_hnsw, store, disk, hnsw_index, index, indexed_ids, collections,
      collections_metadata, manifest, dirs, created, removed, threads, last>>

\* no client has connected
Clients == {1, 2}
NoThreads == [t \in Clients |-> [pc |-> "closed", command |-> "", vectors |-> <<>>]]

\* no call yet
NoCall == [op |-> "none", err |-> "none"]

\* ------------------------------------------------------ the collection

\* what the collection is offered: each id with its vector, any metadata
StoredIDs == {"a", "b"}
VectorOf(id) == IF id = "a" THEN VX ELSE IF id = "b" THEN VD ELSE VY
\* ... or with a vector of another length
AddedVectors(id) == {VectorOf(id), V1}
Metadatas == {NoneMeta, {}, MetaRed}
\* the arguments tried for search_similar
MaxK == 3
Ks == {1, MaxK}
Queries == {VX, VD}
Thresholds == {0, 50}
EfSearches == {NoneInt, 1}
Filters == {NoneMeta, {}, MetaRed}

\* the levels add_item draws for the ids of S (the others are not inserted)
LevelsFor(S) == {levels \in [IDs -> Levels] : \A i \in IDs \ S : levels[i] = 0}

Coll == [use_hnsw |-> use_hnsw, store |-> store, disk |-> disk, hnsw_index |-> hnsw_index]
Becomes(c) ==
    /\ use_hnsw' = c.use_hnsw
    /\ store' = c.store
    /\ disk' = c.disk
    /\ hnsw_index' = c.hnsw_index
    /\ UNCHANGED <<threads, collections, collections_metadata, manifest, dirs, created,
                   index, indexed_ids>>

\* Collection(name, storage_dir, use_hnsw) on a new directory
Init ==
    /\ use_hnsw \in BOOLEAN
    /\ store = NewStore
    /\ disk = NoDisk
    /\ hnsw_index = NewIndex
    /\ index = NoneIndex
    /\ indexed_ids = <<>>
    /\ collections = EmptyDict
    /\ collections_metadata = EmptyDict
    /\ manifest = NoManifest
    /\ dirs = EmptyDict
    /\ created = EmptyDict
    /\ threads = NoThreads
    /\ removed = {}
    /\ last = NoCall

\* collection.add_vector(id, vector, metadata)
AddVector ==
    \E id \in StoredIDs, metadata \in Metadatas :
     \E vector \in AddedVectors(id) :
      \E levels \in LevelsFor(IF hnsw_index.built THEN {id}
                              ELSE DOMAIN store.vectors \cup {id}) :
        \E r \in {Collection_add_vector(Coll, id, vector, metadata, levels)} :
          /\ Becomes(r.c)
          /\ removed' = IF r.err = "ValueError" THEN removed ELSE removed \ {id}
          /\ last' = [op |-> "add_vector", err |-> r.err]

\* collection.remove_vector(id)
RemoveVector ==
    \E id \in StoredIDs :
      \E before \in SUBSET SelfLoopRest(hnsw_index, id, 0) :
        \E r \in {Collection_remove_vector(Coll, id, before)} :
          /\ Becomes(r.c)
          /\ removed' = IF r.err = "none" THEN removed \cup {id} ELSE removed
          /\ last' = [op |-> "remove_vector", err |-> r.err]

\* The process ends and a new one opens the collection from its directory
Reopen ==
    \E levels \in LevelsFor(IF use_hnsw THEN DOMAIN disk.vectors ELSE {}) :
      \E r \in {Collection_init(use_hnsw, disk, levels)} :
        /\ Becomes(r.c)
        /\ UNCHANGED removed
        /\ last' = [op |-> "open", err |-> r.err]

\* collection.search_similar(...): it reads the collection and changes nothing
SearchSimilar ==
    \E query \in Queries, k \in Ks, threshold \in Thresholds,
       ef_search \in EfSearches, filter_metadata \in Filters :
        /\ Collection_search_similar(Coll, query, k, threshold, ef_search,
               filter_metadata).err \in {"none", "KeyError", "ValueError"}
        /\ UNCHANGED vars

Next == AddVector \/ RemoveVector \/ Reopen \/ SearchSimilar

Spec == Init /\ [][Next]_vars

\* ------------------------------------------- the index used on its own

\* HNSWIndex(dim, M, ef_construction, ml), no item added yet
InitIndex ==
    /\ use_hnsw = TRUE
    /\ store = NewStore
    /\ disk = NoDisk
    /\ hnsw_index = [NewIndex EXCEPT !.built = TRUE]
    /\ index = NoneIndex
    /\ indexed_ids = <<>>
    /\ collections = EmptyDict
    /\ collections_metadata = EmptyDict
    /\ manifest = NoManifest
    /\ dirs = EmptyDict
    /\ created = EmptyDict
    /\ threads = NoThreads
    /\ removed = {}
    /\ last = NoCall

\* index.add_item(id, vector), the vector of the index's dimension.  The
\* searches of add_item and search run with ef = 1 or with an ef that no index
\* of the model fills, so the iteration order of the neighbour sets does not
\* show in their results.
AddItem ==
    \E id \in IDs, l \in Levels :
      \E r \in {add_item(hnsw_index, id, VectorOf(id), l, IdSeq)} :
        /\ hnsw_index' = r.h
        /\ removed' = removed \ {id}
        /\ UNCHANGED <<threads, collections, collections_metadata, manifest, dirs, created,
                   index, indexed_ids, use_hnsw, store, disk, last>>

\* index.remove_item(id)
RemoveItem ==
    \E id \in IDs :
      \E before \in SUBSET SelfLoopRest(hnsw_index, id, 0) :
        \E r \in {remove_item(hnsw_index, id, before)} :
          /\ hnsw_index' = r.h
          /\ removed' = IF r.err = "none" THEN removed \cup {id} ELSE removed
          /\ UNCHANGED <<threads, collections, collections_metadata, manifest, dirs, created,
                   index, indexed_ids, use_hnsw, store, disk, last>>

\* index.search(query, k, ef_search): it reads the index and changes nothing
Search ==
    \E query \in Queries, k \in Ks, ef_search \in EfSearches :
        /\ search(hnsw_index, query, k, ef_search, IdSeq).err \in
               {"none", "KeyError", "ValueError"}
        /\ UNCHANGED vars

NextIndex == AddItem \/ RemoveItem \/ Search

SpecIndex == InitIndex /\ [][NextIndex]_vars

\* The same index when an id comes back with another vector
VectorsOf(id) == IF id = "b" THEN {VX, VD} ELSE {VectorOf(id)}
ReAddItem ==
    \E id \in IDs, l \in Levels :
      \E vector \in VectorsOf(id) :
        \E r \in {add_item(hnsw_index, id, vector, l, IdSeq)} :
          /\ hnsw_index' = r.h
          /\ removed' = removed \ {id}
          /\ UNCHANGED <<threads, collections, collections_metadata, manifest, dirs, created,
                   index, indexed_ids, use_hnsw, store, disk, last>>

NextReAdd == ReAddItem \/ RemoveItem

SpecReAdd == InitIndex /\ [][NextReAdd]_vars

\* The same index, of dimension dim, offered vectors of its dimension and of
\* another length, the outcome of each call recorded
dim == 2
AddAnyItem ==
    \E id \in StoredIDs, l \in Levels :
      \E vector \in AddedVectors(id) :
        \E r \in {add_item(hnsw_index, id, vector, l, IdSeq)} :
          /\ hnsw_index' = r.h
          /\ removed' = removed \ {id}
          /\ last' = [op |-> IF id \in DOMAIN hnsw_index.nodes
                             THEN "update_item" ELSE "add_item",
                      err |-> r.err]
          /\ UNCHANGED <<threads, collections, collections_metadata, manifest, dirs, created,
                   index, indexed_ids, use_hnsw, store, disk>>

RemoveAnyItem ==
    \E id \in StoredIDs :
      \E before \in SUBSET SelfLoopRest(hnsw_index, id, 0) :
        \E r \in {remove_item(hnsw_index, id, before)} :
          /\ hnsw_index' = r.h
          /\ removed' = IF r.err = "none" THEN removed \cup {id} ELSE removed
          /\ last' = [op |-> "remove_item", err |-> r.err]
          /\ UNCHANGED <<threads, collections, collections_metadata, manifest, dirs, created,
                   index, indexed_ids, use_hnsw, store, disk>>

NextAny == AddAnyItem \/ RemoveAnyItem

SpecAny == InitIndex /\ [][NextAny]_vars

\* ------------------------------------------- a VectorStore used on its own

\* what the store is offered, and the arguments tried for search_similar
StoreVectors == {VX, VD, VN, VZ}
StoreQueries == {VX, VD, VZ, V1}
StoreKs == {0, 1, 2, MaxK + 1}
StoreThresholds == {-50, 0, 60, 100}

\* VectorStore()
InitStore ==
    /\ use_hnsw = FALSE
    /\ store = NewStore
    /\ disk = NoDisk
    /\ hnsw_index = NewIndex
    /\ index = NoneIndex
    /\ indexed_ids = <<>>
    /\ collections = EmptyDict
    /\ collections_metadata = EmptyDict
    /\ manifest = NoManifest
    /\ dirs = EmptyDict
    /\ created = EmptyDict
    /\ threads = NoThreads
    /\ removed = {}
    /\ last = NoCall

\* store.add_vector(id, vector)
StoreAdd ==
    \E id \in IDs, vector \in StoreVectors :
      \E r \in {VectorStore_add_vector(store, id, vector)} :
        /\ store' = r.s
        /\ last' = [op |-> "add_vector", err |-> r.err]
        /\ UNCHANGED <<threads, collections, collections_metadata, manifest, dirs, created,
                   index, indexed_ids, use_hnsw, disk, hnsw_index, removed>>

\* store.remove_vector(id)
StoreRemove ==
    \E id \in IDs :
      \E r \in {VectorStore_remove_vector(store, id)} :
        /\ store' = r.s
        /\ last' = [op |-> "remove_vector", err |-> r.err]
        /\ UNCHANGED <<threads, collections, collections_metadata, manifest, dirs, created,
                   index, indexed_ids, use_hnsw, disk, hnsw_index, removed>>

\* store.search_similar(query, k, threshold): it reads the store
StoreSearch ==
    \E query \in StoreQueries, k \in StoreKs, threshold \in StoreThresholds :
      \E r \in {VectorStore_search_similar(store, query, k, threshold)} :
        /\ last' = [op |-> "search_similar", err |-> r.err]
        /\ UNCHANGED <<threads, collections, collections_metadata, manifest, dirs, created,
                   index, indexed_ids, use_hnsw, store, disk, hnsw_index, removed>>

NextStore == StoreAdd \/ StoreRemove \/ StoreSearch

SpecStore == InitStore /\ [][NextStore]_vars

\* ------------------------------------------------- _matches_filter alone

\* the metadata dicts and the filters _matches_filter is given
UserNamed(v) == {<<"user", Obj({<<"name", v>>})>>}
MetadataTrees ==
    { {}, MetaRed, UserNamed(Str("red")), UserNamed(Str("blue")),
      UserNamed(Obj({<<"first", Str("red")>>})), MetaRed \cup UserNamed(Str("red")),
      {<<"user", Str("red")>>}, {<<"user", Obj({})>>}, {<<"name", Str("red")>>},
      {<<"user.name", Str("red")>>}, {<<"user", Obj({<<"first", Str("red")>>})>>} }
FilterKeys == {"color", "user", "name", "user.name", "user.name.first"}
FilterValues == {Str("red"), Str("blue"), Obj({<<"name", Str("red")>>})}
FilterQueries ==
    {f \in SUBSET (FilterKeys \X FilterValues) :
        /\ Cardinality(f) <= 2
        /\ \A kv \in f, kw \in f : kv[1] = kw[1] => kv = kw}

\* the arguments of a call not yet made
InitFilter ==
    /\ use_hnsw = FALSE
    /\ store = NewStore
    /\ disk = NoDisk
    /\ hnsw_index = NewIndex
    /\ index = NoneIndex
    /\ indexed_ids = <<>>
    /\ collections = EmptyDict
    /\ collections_metadata = EmptyDict
    /\ manifest = NoManifest
    /\ dirs = EmptyDict
    /\ created = EmptyDict
    /\ threads = NoThreads
    /\ removed = {}
    /\ last \in {[op |-> "none", metadata |-> metadata, filter_query |-> filter_query,
                   result |-> FALSE] :
                     metadata \in MetadataTrees, filter_query \in FilterQueries}

\* collection._matches_filter(metadata, filter_query)
MatchesFilter ==
    /\ last.op = "none"
    /\ last' = [last EXCEPT !.op = "Collection._matches_filter",
                            !.result = matches_filter(last.metadata, last.filter_query)]
    /\ UNCHANGED <<threads, collections, collections_metadata, manifest, dirs, created,
                   index, indexed_ids, use_hnsw, store, disk, hnsw_index, removed>>

\* query_engine._matches_filter(metadata, filter_query)
EngineMatchesFilter ==
    /\ last.op = "none"
    /\ last' = [last EXCEPT !.op = "QueryEngine._matches_filter",
                            !.result = QueryEngine_matches_filter(last.metadata,
                                                                  last.filter_query)]
    /\ UNCHANGED <<threads, collections, collections_metadata, manifest, dirs, created,
                   index, indexed_ids, use_hnsw, store, disk, hnsw_index, removed>>

NextFilter == MatchesFilter \/ EngineMatchesFilter

SpecFilter == InitFilter /\ [][NextFilter]_vars

\* ------------------------------------------- a CommandInterface

\* the words of the command lines
Tokens == {"k1", "k2", "1", "METADATA"}
ArgLists(n) == UNION {[1..m -> Tokens] : m \in 0..n}
MaxArgs == 3

\* After a command, with ran the reply and the store it left: last.key is the
\* key of a command of one argument, last.was says that the store held it
\* before, last.live is the set of the keys that a VADD answered with OK
\* added and that no VDEL of one argument named since.
Ran(op, args, ran) ==
    /\ store' = ran.s
    /\ last' = [op |-> op, reply |-> ran.reply,
                key |-> IF Len(args) = 1 THEN args[1] ELSE "",
                was |-> Len(args) = 1 /\ args[1] \in last.live,
                live |-> CASE op = "VADD" /\ ran.reply = "OK" -> last.live \cup {args[1]}
                           [] op = "VDEL" /\ Len(args) = 1 -> last.live \ {args[1]}
                           [] OTHER -> last.live]
    /\ UNCHANGED <<threads, use_hnsw, disk, hnsw_index, index, indexed_ids, collections,
                   collections_metadata, manifest, dirs, created, removed>>

\* CommandInterface()
InitCommand ==
    /\ use_hnsw = FALSE
    /\ store = NewVectorDb
    /\ disk = NoDisk
    /\ hnsw_index = NewIndex
    /\ index = NoneIndex
    /\ indexed_ids = <<>>
    /\ collections = EmptyDict
    /\ collections_metadata = EmptyDict
    /\ manifest = NoManifest
    /\ dirs = EmptyDict
    /\ created = EmptyDict
    /\ threads = NoThreads
    /\ removed = {}
    /\ last = [op |-> "none", reply |-> "", key |-> "", was |-> FALSE, live |-> {}]

\* execute_command("VADD ...")
VAdd ==
    \E word \in {"VADD", "vadd"}, args \in ArgLists(MaxArgs) :
        Ran("VADD", args, execute_command(store, <<word>> \o args))
\* execute_command("VDEL ...")
VDel ==
    \E word \in {"VDEL", "vdel"}, args \in ArgLists(MaxArgs - 1) :
        Ran("VDEL", args, execute_command(store, <<word>> \o args))
\* execute_command("VGET ...")
VGet ==
    \E args \in ArgLists(MaxArgs - 1) :
        Ran("VGET", args, execute_command(store, <<"VGET">> \o args))
\* execute_command("VCOUNT")
VCount == Ran("VCOUNT", <<>>, execute_command(store, <<"VCOUNT">>))

NextCommand == VAdd \/ VDel \/ VGet \/ VCount

SpecCommand == InitCommand /\ [][NextCommand]_vars

\* ------------------------- _matches_filter on values of several types

TypedValues == {Bool(TRUE), Bool(FALSE), Num(1), Num(0), Str("1"), Str("True")}
TypedTrees ==
    {{<<"active", v>>} : v \in TypedValues} \cup {UserNamed(v) : v \in TypedValues}
TypedQueries ==
    {{<<key, v>>} : key \in {"active", "user.name"}, v \in TypedValues}
        \cup {{<<"user", Obj({<<"name", v>>})>>} : v \in TypedValues}
\* the type of the JSON text json.dump writes for a value
JSONType(v) ==
    CASE v.type = "bool" -> "boolean"
      [] v.type = "int" -> "number"
      [] v.type = "str" -> "string"
      [] OTHER -> "object"

\* the arguments of a call not yet made
InitTyped ==
    /\ use_hnsw = FALSE
    /\ store = NewStore
    /\ disk = NoDisk
    /\ hnsw_index = NewIndex
    /\ index = NoneIndex
    /\ indexed_ids = <<>>
    /\ collections = EmptyDict
    /\ collections_metadata = EmptyDict
    /\ manifest = NoManifest
    /\ dirs = EmptyDict
    /\ created = EmptyDict
    /\ threads = NoThreads
    /\ removed = {}
    /\ last \in {[op |-> "none", metadata |-> metadata, filter_query |-> filter_query,
                   result |-> FALSE] :
                     metadata \in TypedTrees, filter_query \in TypedQueries}

SpecTyped == InitTyped /\ [][NextFilter]_vars

\* ------------------------------ a BinaryVectorStore whose writes may fail

Faults == {"none", "open", "dump", "save_open", "save"}

\* BinaryVectorStore(dir) on a new directory; last.failed says that a write
\* of the last call raised
InitFaulty ==
    /\ use_hnsw = FALSE
    /\ store = NewStore
    /\ disk = NoDisk
    /\ hnsw_index = NewIndex
    /\ index = NoneIndex
    /\ indexed_ids = <<>>
    /\ collections = EmptyDict
    /\ collections_metadata = EmptyDict
    /\ manifest = NoManifest
    /\ dirs = EmptyDict
    /\ created = EmptyDict
    /\ threads = NoThreads
    /\ removed = {}
    /\ last = [op |-> "none", err |-> "none", failed |-> FALSE]

\* store.add_vector(id, vector, metadata)
FaultyAdd ==
    \E id \in StoredIDs, metadata \in Metadatas, at \in Faults :
      \E vector \in AddedVectors(id) :
        \E r \in {WhenSaveFails(BinaryVectorStore_add_vector(store, disk, id, vector,
                                                              metadata), disk, at)} :
          /\ store' = r.s
          /\ disk' = r.disk
          /\ last' = [op |-> "add_vector", err |-> r.err,
                      failed |-> at # "none" /\ r.s # store]
          /\ UNCHANGED <<threads, use_hnsw, hnsw_index, index, indexed_ids, collections,
                         collections_metadata, manifest, dirs, created, removed>>

\* store.remove_vector(id)
FaultyRemove ==
    \E id \in StoredIDs, at \in Faults :
      \E r \in {WhenSaveFails(BinaryVectorStore_remove_vector(store, disk, id), disk, at)} :
        /\ store' = r.s
        /\ disk' = r.disk
        /\ last' = [op |-> "remove_vector", err |-> r.err,
                    failed |-> at # "none" /\ r.s # store]
        /\ UNCHANGED <<threads, use_hnsw, hnsw_index, index, indexed_ids, collections,
                       collections_metadata, manifest, dirs, created, removed>>

\* The process ends and a new one constructs the store over the directory
FaultyReopen ==
    /\ store' = load_store(disk)
    /\ last' = [op |-> "open", err |-> "none", failed |-> FALSE]
    /\ UNCHANGED <<threads, use_hnsw, disk, hnsw_index, index, indexed_ids, collections,
                   collections_metadata, manifest, dirs, created, removed>>

NextFaulty == FaultyAdd \/ FaultyRemove \/ FaultyReopen

SpecFaulty == InitFaulty /\ [][NextFaulty]_vars

\* ------------------------------------------- a PersistentVectorStore

\* The file at filepath: bad says that json.load cannot decode what it holds
NoFile ==
    [exists |-> FALSE, bad |-> FALSE, dimension |-> NoneInt, vectors |-> EmptyDict,
     keys |-> <<>>]

\* PersistentVectorStore.save: [file, err].  at says where a write raises:
\* "open" at the open of line 63 (the file is as it was), "dump" inside
\* json.dump (the file, truncated by the open, is left cut short).
PersistentVectorStore_save(s, file, at) ==
    CASE at = "open" -> [file |-> file, err |-> "OSError"]
      [] at = "dump" -> [file |-> [file EXCEPT !.exists = TRUE, !.bad = TRUE],
                         err |-> "OSError"]
      [] OTHER -> [file |-> [exists |-> TRUE, bad |-> FALSE, dimension |-> s.dimension,
                             vectors |-> s.vectors, keys |-> s.keys],
                   err |-> "none"]

\* PersistentVectorStore.__init__ with load: [s, err]; json.load of line 72 is
\* in no try, so what it raises leaves the constructor
PersistentVectorStore_load(file) ==
    IF ~file.exists THEN [s |-> NewStore, err |-> "none"]
    ELSE IF file.bad THEN [s |-> NewStore, err |-> "JSONDecodeError"]
    ELSE [s |-> [vectors |-> file.vectors, keys |-> file.keys, metadata |-> EmptyDict,
                 dimension |-> file.dimension],
          err |-> "none"]

\* add_vector and remove_vector: done is the outcome of the VectorStore
\* method, and save runs only when that returned
ThenSave(done, file, at) ==
    IF done.err # "none" THEN [s |-> done.s, file |-> file, err |-> done.err]
    ELSE [s |-> done.s, file |-> PersistentVectorStore_save(done.s, file, at).file,
          err |-> PersistentVectorStore_save(done.s, file, at).err]
PersistentVectorStore_add_vector(s, file, id, vector, at) ==
    ThenSave(VectorStore_add_vector(s, id, vector), file, at)
PersistentVectorStore_remove_vector(s, file, id, at) ==
    ThenSave(VectorStore_remove_vector(s, id), file, at)

SaveFaults == {"none", "open", "dump"}

\* PersistentVectorStore(filepath) where no file is; disk is the file, and
\* last.held says whether the process holds a store (the constructor returned)
InitPersistent ==
    /\ use_hnsw = FALSE
    /\ store = NewStore
    /\ disk = NoFile
    /\ hnsw_index = NewIndex
    /\ index = NoneIndex
    /\ indexed_ids = <<>>
    /\ collections = EmptyDict
    /\ collections_metadata = EmptyDict
    /\ manifest = NoManifest
    /\ dirs = EmptyDict
    /\ created = EmptyDict
    /\ threads = NoThreads
    /\ removed = {}
    /\ last = [op |-> "open", err |-> "none", held |-> TRUE]

\* store.add_vector(id, vector)
PersistentAdd ==
    /\ last.held
    /\ \E id \in StoredIDs, at \in SaveFaults :
         \E vector \in AddedVectors(id) :
           \E r \in {PersistentVectorStore_add_vector(store, disk, id, vector, at)} :
             /\ store' = r.s
             /\ disk' = r.file
             /\ last' = [op |-> "add_vector", err |-> r.err, held |-> TRUE]
             /\ UNCHANGED <<threads, use_hnsw, hnsw_index, index, indexed_ids, collections,
                            collections_metadata, manifest, dirs, created, removed>>

\* store.remove_vector(id)
PersistentRemove ==
    /\ last.held
    /\ \E id \in StoredIDs, at \in SaveFaults :
         \E r \in {PersistentVectorStore_remove_vector(store, disk, id, at)} :
           /\ store' = r.s
           /\ disk' = r.file
           /\ last' = [op |-> "remove_vector", err |-> r.err, held |-> TRUE]
           /\ UNCHANGED <<threads, use_hnsw, hnsw_index, index, indexed_ids, collections,
                          collections_metadata, manifest, dirs, created, removed>>

\* The process ends and a new one calls PersistentVectorStore(filepath)
PersistentOpen ==
    \E r \in {PersistentVectorStore_load(disk)} :
      /\ store' = r.s
      /\ last' = [op |-> "open", err |-> r.err, held |-> r.err = "none"]
      /\ UNCHANGED <<threads, use_hnsw, disk, hnsw_index, index, indexed_ids, collections,
                     collections_metadata, manifest, dirs, created, removed>>

NextPersistent == PersistentAdd \/ PersistentRemove \/ PersistentOpen

SpecPersistent == InitPersistent /\ [][NextPersistent]_vars

\* ------------------------------------------------- a CollectionManager

Mgr ==
    [use_hnsw |-> use_hnsw, collections |-> collections,
     collections_metadata |-> collections_metadata, manifest |-> manifest, dirs |-> dirs]
MgrBecomes(m) ==
    /\ collections' = m.collections
    /\ collections_metadata' = m.collections_metadata
    /\ manifest' = m.manifest
    /\ dirs' = m.dirs
    /\ UNCHANGED <<threads, use_hnsw, store, disk, hnsw_index, index, indexed_ids, removed>>

\* the arguments tried; last.held is the number of vectors in the directory
\* of last.name before the call
Names == {"x", "y"}
UseHnswArgs == {"None", "True", "False"}
ParamsArgs == {DefaultParams, [M |-> 1, ef_construction |-> 200]}

\* CollectionManager(base_storage_dir, use_hnsw) on a new base directory
InitManager ==
    /\ use_hnsw \in BOOLEAN
    /\ store = NewStore
    /\ disk = NoDisk
    /\ hnsw_index = NewIndex
    /\ index = NoneIndex
    /\ indexed_ids = <<>>
    /\ collections = EmptyDict
    /\ collections_metadata = EmptyDict
    /\ manifest = NoManifest
    /\ dirs = EmptyDict
    /\ created = EmptyDict
    /\ threads = NoThreads
    /\ removed = {}
    /\ last = NoCall

\* manager.create_collection(name, use_hnsw, hnsw_params)
CreateCollection ==
    \E name \in Names, use_hnsw_arg \in UseHnswArgs, hnsw_params_arg \in ParamsArgs :
      \E levels \in LevelsFor({"a"}) :
        \E r \in {create_collection(Mgr, name, use_hnsw_arg, hnsw_params_arg, levels)} :
          /\ MgrBecomes(r.m)
          /\ created' = IF r.err # "none" THEN created
                        ELSE Put(created, name,
                                 [use_hnsw |-> IF use_hnsw_arg = "None" THEN use_hnsw
                                               ELSE use_hnsw_arg = "True",
                                  hnsw_params |-> hnsw_params_arg])
          /\ last' = [op |-> "create_collection", err |-> r.err, name |-> name,
                      held |-> Len(DirOf(Mgr, name).keys)]

\* manager.delete_collection(name)
DeleteCollection ==
    \E name \in Names :
      \E r \in {delete_collection(Mgr, name)} :
        /\ MgrBecomes(r.m)
        /\ created' = IF r.err # "none" THEN created ELSE Del(created, name)
        /\ last' = [op |-> "delete_collection", err |-> r.err, name |-> name,
                    held |-> Len(DirOf(Mgr, name).keys)]

\* manager.get_collection(name).add_vector("a", [1, 0], metadata)
AddToCollection ==
    \E name \in Names, metadata \in Metadatas :
      \E levels \in LevelsFor({"a"}) :
        \E r \in {AddToHandle(get_collection(Mgr, name, levels), name, "a", VX, metadata,
                               levels)} :
          /\ MgrBecomes(r.m)
          /\ UNCHANGED created
          /\ last' = [op |-> "add_vector", err |-> r.err, name |-> name,
                      held |-> Len(DirOf(Mgr, name).keys)]

\* The process ends and a new one opens a manager on the base directory
ReopenManager ==
    \E r \in {CollectionManager_init(manifest)} :
      /\ collections' = r.collections
      /\ collections_metadata' = r.collections_metadata
      /\ last' = [op |-> "open", err |-> "none", name |-> "x", held |-> 0]
      /\ UNCHANGED <<threads, use_hnsw, store, disk, hnsw_index, index, indexed_ids, manifest, dirs,
                     created, removed>>

NextManager == CreateCollection \/ DeleteCollection \/ AddToCollection \/ ReopenManager

SpecManager == InitManager /\ [][NextManager]_vars

\* ------------------------- a QueryEngine over an IndexManager and its store

Manager ==
    [store |-> store, use_hnsw |-> use_hnsw, index |-> index, hnsw_index |-> hnsw_index,
     indexed_ids |-> indexed_ids]

\* what the store is offered, and the arguments tried for search
EngineVectors(id) == IF id = "a" THEN {VX} ELSE {VD, VN}
EngineMetadatas == {NoneMeta, MetaRed}
EngineFilters == {NoneMeta, {}, MetaRed}
EngineThresholds == {-50, 0, 50}

\* IndexManager(BinaryVectorStore(dir), use_hnsw) and QueryEngine(index_manager)
InitEngine ==
    /\ use_hnsw \in BOOLEAN
    /\ store = NewStore
    /\ disk = NoDisk
    /\ hnsw_index = NewIndex
    /\ index = NoneIndex
    /\ indexed_ids = <<>>
    /\ collections = EmptyDict
    /\ collections_metadata = EmptyDict
    /\ manifest = NoManifest
    /\ dirs = EmptyDict
    /\ created = EmptyDict
    /\ threads = NoThreads
    /\ removed = {}
    /\ last = NoCall

\* store.add_vector(id, vector, metadata)
EngineAdd ==
    \E id \in StoredIDs, metadata \in EngineMetadatas :
      \E vector \in EngineVectors(id) :
        \E r \in {BinaryVectorStore_add_vector(store, disk, id, vector, metadata)} :
          /\ store' = r.s
          /\ disk' = r.disk
          /\ last' = [op |-> "add_vector", err |-> r.err]
          /\ UNCHANGED <<threads, collections, collections_metadata, manifest, dirs, created,
                   index, indexed_ids, use_hnsw, hnsw_index, removed>>

\* store.remove_vector(id)
EngineRemove ==
    \E id \in StoredIDs :
      \E r \in {BinaryVectorStore_remove_vector(store, disk, id)} :
        /\ store' = r.s
        /\ disk' = r.disk
        /\ last' = [op |-> "remove_vector", err |-> r.err]
        /\ UNCHANGED <<threads, collections, collections_metadata, manifest, dirs, created,
                   index, indexed_ids, use_hnsw, hnsw_index, removed>>

\* query_engine.search(query, k, threshold, filter_metadata): update_index
\* may rebuild the indices
EngineSearch ==
    \E query \in Queries, k \in Ks, threshold \in EngineThresholds,
       filter_metadata \in EngineFilters :
      \E levels \in LevelsFor(DOMAIN store.vectors) :
        \E r \in {QueryEngine_search(Manager, query, k, threshold, filter_metadata, levels)} :
          /\ index' = r.im.index
          /\ indexed_ids' = r.im.indexed_ids
          /\ hnsw_index' = r.im.hnsw_index
          /\ last' = [op |-> "search", err |-> r.err]
          /\ UNCHANGED <<threads, collections, collections_metadata, manifest, dirs, created,
                   use_hnsw, store, disk, removed>>

NextEngine == EngineAdd \/ EngineRemove \/ EngineSearch

SpecEngine == InitEngine /\ [][NextEngine]_vars

\* ------------------------------------------------------ VectorDBServer

\* the stores PersistentVectorStore(storage_path) loads when the server starts
ServerStores ==
    {NewStore, VectorStore_add_vector(NewStore, "a", VX).s,
     VectorStore_add_vector(VectorStore_add_vector(NewStore, "a", VX).s, "b", VD).s}
Commands == {"add", "get", "remove", "search", "clear", "other"}

\* thread t moves to pc
Goes(t, pc) == threads' = [threads EXCEPT ![t].pc = pc]

\* VectorDBServer(...) and start(): IndexManager(self.store) has use_hnsw True
InitServer ==
    /\ use_hnsw = TRUE
    /\ store \in ServerStores
    /\ disk = NoDisk
    /\ hnsw_index = NewIndex
    /\ index = NoneIndex
    /\ indexed_ids = <<>>
    /\ collections = EmptyDict
    /\ collections_metadata = EmptyDict
    /\ manifest = NoManifest
    /\ dirs = EmptyDict
    /\ created = EmptyDict
    /\ threads = NoThreads
    /\ removed = {}
    /\ last = NoCall

\* start lines 31-35: a connection is accepted and its thread started
Accept(t) ==
    /\ threads[t].pc = "closed"
    /\ Goes(t, "recv")
    /\ UNCHANGED <<use_hnsw, store, disk, hnsw_index, index, indexed_ids, collections,
                   collections_metadata, manifest, dirs, created, removed, last>>

\* handle_client lines 49-71: a request has been received and decoded
Receive(t) ==
    /\ threads[t].pc = "recv"
    /\ \E command \in Commands :
         threads' = [threads EXCEPT ![t].pc = "handle_request", ![t].command = command]
    /\ UNCHANGED <<use_hnsw, store, disk, hnsw_index, index, indexed_ids, collections,
                   collections_metadata, manifest, dirs, created, removed, last>>

\* handle_client lines 50-51 and 85: the client has closed the connection
Disconnect(t) ==
    /\ threads[t].pc = "recv"
    /\ Goes(t, "closed")
    /\ UNCHANGED <<use_hnsw, store, disk, hnsw_index, index, indexed_ids, collections,
                   collections_metadata, manifest, dirs, created, removed, last>>

\* handle_request lines 89-121 up to the first call on the store or the
\* index: add, get, remove and clear name methods PersistentVectorStore does
\* not have (AttributeError, caught at line 79), search calls update_index
Dispatch(t) ==
    /\ threads[t].pc = "handle_request"
    /\ Goes(t, IF threads[t].command = "search" THEN "update_index" ELSE "respond")
    /\ UNCHANGED <<use_hnsw, store, disk, hnsw_index, index, indexed_ids, collections,
                   collections_metadata, manifest, dirs, created, removed, last>>

\* IndexManager.update_index lines 79-90, up to its call of create_index
UpdateIndex(t) ==
    /\ threads[t].pc = "update_index"
    /\ Goes(t, IF ~index.built
                  \/ DOMAIN store.vectors # {indexed_ids[n] : n \in 1..Len(indexed_ids)}
               THEN "create_index" ELSE "search")
    /\ UNCHANGED <<use_hnsw, store, disk, hnsw_index, index, indexed_ids, collections,
                   collections_metadata, manifest, dirs, created, removed, last>>

\* create_index lines 33-37: the early return, or vectors = [] and
\* self.indexed_ids = []
CreateIndex(t) ==
    /\ threads[t].pc = "create_index"
    /\ IF store.keys = <<>>
       THEN Goes(t, "search") /\ UNCHANGED indexed_ids
       ELSE /\ threads' = [threads EXCEPT ![t].pc = "collect", ![t].vectors = <<>>]
            /\ indexed_ids' = <<>>
    /\ UNCHANGED <<use_hnsw, store, disk, hnsw_index, index, collections,
                   collections_metadata, manifest, dirs, created, removed, last>>

\* create_index lines 38-40: one turn of the loop, which appends to the
\* thread's own list vectors and to the list self.indexed_ids names now
Collect(t) ==
    /\ threads[t].pc = "collect"
    /\ IF Len(threads[t].vectors) = Len(store.keys)
       THEN Goes(t, "normalize") /\ UNCHANGED indexed_ids
       ELSE LET id == store.keys[Len(threads[t].vectors) + 1] IN
            /\ threads' = [threads EXCEPT ![t].vectors = Append(@, store.vectors[id])]
            /\ indexed_ids' = Append(indexed_ids, id)
    /\ UNCHANGED <<use_hnsw, store, disk, hnsw_index, index, collections,
                   collections_metadata, manifest, dirs, created, removed, last>>

\* create_index lines 43-50: self.index is assigned the rows of the thread
Normalize(t) ==
    /\ threads[t].pc = "normalize"
    /\ index' = [built |-> TRUE, rows |-> threads[t].vectors]
    /\ Goes(t, IF use_hnsw /\ store.dimension # NoneInt
               THEN "_create_hnsw_index" ELSE "search")
    /\ UNCHANGED <<use_hnsw, store, disk, hnsw_index, indexed_ids, collections,
                   collections_metadata, manifest, dirs, created, removed, last>>

\* IndexManager._create_hnsw_index; what add_item raises leaves handle_request
CreateHnsw(t) ==
    /\ threads[t].pc = "_create_hnsw_index"
    /\ \E levels \in LevelsFor(DOMAIN store.vectors) :
         \E r \in {create_hnsw_index(store, levels)} :
           /\ hnsw_index' = r.h
           /\ Goes(t, IF r.err = "none" THEN "search" ELSE "respond")
    /\ UNCHANGED <<use_hnsw, store, disk, index, indexed_ids, collections,
                   collections_metadata, manifest, dirs, created, removed, last>>

\* handle_request lines 109-113: QueryEngine.search takes no metric argument,
\* the call raises TypeError
SearchRaises(t) ==
    /\ threads[t].pc = "search"
    /\ Goes(t, "respond")
    /\ UNCHANGED <<use_hnsw, store, disk, hnsw_index, index, indexed_ids, collections,
                   collections_metadata, manifest, dirs, created, removed, last>>

\* handle_client lines 75-83: the response is sent, the thread waits again
Respond(t) ==
    /\ threads[t].pc = "respond"
    /\ threads' = [threads EXCEPT ![t] = [pc |-> "recv", command |-> "", vectors |-> <<>>]]
    /\ UNCHANGED <<use_hnsw, store, disk, hnsw_index, index, indexed_ids, collections,
                   collections_metadata, manifest, dirs, created, removed, last>>

NextServer ==
    \E t \in Clients :
        \/ Accept(t) \/ Receive(t) \/ Disconnect(t) \/ Dispatch(t) \/ UpdateIndex(t)
        \/ CreateIndex(t) \/ Collect(t) \/ Normalize(t) \/ CreateHnsw(t)
        \/ SearchRaises(t) \/ Respond(t)

SpecServer == InitServer /\ [][NextServer]_vars

\* ----------------------------------------------------------------- claims

\* the ids of a list of <<id, similarity>> results
Ids(res) == {res[n][1] : n \in 1..Len(res)}

\* C1: with HNSW enabled, after every add_vector and remove_vector (returning
\* or raising) and after reopening, the ids of store.vectors are the ids of
\* hnsw_index.nodes, an index not yet constructed counting as empty.
C1_StoreIdsAreIndexIds ==
    use_hnsw => DOMAIN store.vectors = DOMAIN hnsw_index.nodes

\* C2: when the collection holds a non-zero vector v under id i and no other
\* stored vector has v's direction, search_similar(v, k = 1) returns exactly
\* the one entry (i, 1.0).
C2_FindsItsOwnVector ==
    \A i \in DOMAIN store.vectors :
        LET v == store.vectors[i] IN
        (/\ Norm(v) # 0
         /\ \A j \in DOMAIN store.vectors \ {i} : Similarity(v, store.vectors[j]) # 100)
        => Collection_search_similar(Coll, v, 1, 0, NoneInt, NoneMeta)
               = [err |-> "none", res |-> <<<<i, 100>>>>]

\* C3: the list HNSWIndex.search returns is ordered by non-increasing
\* similarity, the most similar entry first.
C3_MostSimilarFirst ==
    \A query \in Queries, k \in Ks, ef_search \in EfSearches :
        LET res == search(hnsw_index, query, k, ef_search, IdSeq).res IN
        \A n \in 1..(Len(res) - 1) : res[n][2] >= res[n + 1][2]

\* C4: once add_vector(id, v) has returned, search_similar(q, k, threshold)
\* with no filter, k at least the number of stored vectors and threshold at
\* most the similarity of v to q returns a list that contains id.
C4_AddedIsFound ==
    [][\A id \in StoredIDs, metadata \in Metadatas, levels \in LevelsFor(IDs) :
        LET r == Collection_add_vector(Coll, id, VectorOf(id), metadata, levels) IN
        (r.err = "none" /\ Becomes(r.c))
        => \A query \in Queries, threshold \in Thresholds :
               threshold <= Similarity(VectorOf(id), query)
               => LET found == Collection_search_similar(r.c, query, MaxK, threshold,
                                   NoneInt, NoneMeta)
                  IN found.err = "none" /\ id \in Ids(found.res)]_vars

\* C5: after remove_vector(id) or remove_item(id) has returned, no search, on
\* the collection or on its index, whatever its query, k, threshold, ef_search
\* and filter, returns id until id is added again.
C5_RemovedIsNotFound ==
    \A id \in removed :
      \A query \in Queries, k \in Ks, ef_search \in EfSearches :
        /\ hnsw_index.built
             => id \notin Ids(search(hnsw_index, query, k, ef_search, IdSeq).res)
        /\ \A threshold \in Thresholds, filter_metadata \in Filters :
             id \notin Ids(Collection_search_similar(Coll, query, k, threshold,
                               ef_search, filter_metadata).res)
\* a removal has returned and a search on the HNSW path, over an index that
\* still holds a node, returns an entry
C5_Witness ==
    /\ removed # {}
    /\ use_hnsw /\ hnsw_index.built
    /\ \E query \in Queries :
         Collection_search_similar(Coll, query, MaxK, 0, NoneInt, NoneMeta).res # <<>>

\* C6: remove_item(id) on a present id completes without error and leaves id
\* absent from nodes, from node_levels, from the keys of every level's graph
\* and from every neighbour set of every level.
C6_RemoveLeavesNoTrace ==
    [][\A id \in DOMAIN hnsw_index.nodes :
        \A before \in SUBSET SelfLoopRest(hnsw_index, id, 0) :
          LET r == remove_item(hnsw_index, id, before) IN
          hnsw_index' = r.h
          => /\ r.err = "none"
             /\ id \notin DOMAIN r.h.nodes
             /\ id \notin DOMAIN r.h.node_levels
             /\ \A level \in Levels :
                  /\ id \notin DOMAIN r.h.graphs[level]
                  /\ \A n \in DOMAIN r.h.graphs[level] : id \notin r.h.graphs[level][n]]_vars

\* C7: after any sequence of add_item and remove_item, search(q, k) returns a
\* list without raising, and the empty list on an empty index.
C7_SearchNeverRaises ==
    \A query \in Queries, k \in Ks, ef_search \in EfSearches :
        LET found == search(hnsw_index, query, k, ef_search, IdSeq) IN
        /\ found.err = "none"
        /\ DOMAIN hnsw_index.nodes = {} => found.res = <<>>

\* C8: at every level the neighbour relation is symmetric: b is a neighbour
\* of a exactly when a is a neighbour of b.
C8_NeighborsSymmetric ==
    \A level \in Levels : \A a \in IDs, b \in IDs :
        b \in NeighborsOf(hnsw_index, level, a) <=> a \in NeighborsOf(hnsw_index, level, b)

\* C9: every node has at most M_max0 = 2 * M neighbours at level 0 and at most
\* M neighbours at every level above.
C9_DegreeWithinCap ==
    \A level \in Levels : \A n \in DOMAIN hnsw_index.nodes :
        Cardinality(NeighborsOf(hnsw_index, level, n))
            <= IF level = 0 THEN 2 * M ELSE M

\* C10: ep is None exactly when the index has no nodes; otherwise ep is a
\* present node whose level is the greatest level of the present nodes.
C10_EntryPointIsTopNode ==
    IF DOMAIN hnsw_index.nodes = {} THEN hnsw_index.ep = NoneId
    ELSE /\ hnsw_index.ep \in DOMAIN hnsw_index.nodes
         /\ \A n \in DOMAIN hnsw_index.nodes :
              hnsw_index.node_levels[n] <= hnsw_index.node_levels[hnsw_index.ep]

\* C11: once the store has a dimension D, add_vector with a vector of another
\* length raises ValueError from VectorStore, BinaryVectorStore and Collection
\* and leaves the vectors, the metadata, the dimension, the index and the
\* files as they were, also when every vector has been removed.
C11_WrongLengthRejected ==
    store.dimension # NoneInt =>
      \A id \in StoredIDs, vector \in Vectors, metadata \in Metadatas :
        Len(vector) # store.dimension =>
          /\ VectorStore_add_vector(store, id, vector) = [s |-> store, err |-> "ValueError"]
          /\ BinaryVectorStore_add_vector(store, disk, id, vector, metadata)
                = [s |-> store, disk |-> disk, err |-> "ValueError"]
          /\ \A levels \in LevelsFor({id}) :
                Collection_add_vector(Coll, id, vector, metadata, levels)
                  = [c |-> Coll, err |-> "ValueError"]
\* an add_vector was rejected by a store whose vectors had all been removed
C11_Witness ==
    /\ last = [op |-> "add_vector", err |-> "ValueError"]
    /\ store.dimension # NoneInt
    /\ DOMAIN store.vectors = {}
    /\ removed # {}

\* C12: add_item(id, vector) with a vector whose length is not the index's
\* dim fails and leaves nodes, node_levels, the graphs and the entry point
\* as they were.
C12_WrongLengthItemRejected ==
    \A id \in IDs, l \in Levels, vector \in Vectors :
        Len(vector) # dim =>
          LET r == add_item(hnsw_index, id, vector, l, IdSeq) IN
          r.err # "none" /\ r.h = hnsw_index

\* C13: removing an id that is not present raises KeyError from
\* VectorStore.remove_vector, Collection.remove_vector and
\* HNSWIndex.remove_item and leaves the vectors, the metadata, the graphs,
\* the node levels and the entry point as they were.
C13_AbsentRemovalRaises ==
    /\ \A id \in IDs \ DOMAIN store.vectors :
         /\ VectorStore_remove_vector(store, id) = [s |-> store, err |-> "KeyError"]
         /\ BinaryVectorStore_remove_vector(store, disk, id)
               = [s |-> store, disk |-> disk, err |-> "KeyError"]
         /\ \A before \in SUBSET SelfLoopRest(hnsw_index, id, 0) :
               Collection_remove_vector(Coll, id, before) = [c |-> Coll, err |-> "KeyError"]
    /\ \A id \in IDs \ DOMAIN hnsw_index.nodes :
         remove_item(hnsw_index, id, {}) = [h |-> hnsw_index, err |-> "KeyError"]
\* remove_vector has just raised KeyError for an id removed before, another
\* id being stored
C13_Witness ==
    /\ last = [op |-> "remove_vector", err |-> "KeyError"]
    /\ removed \ DOMAIN store.vectors # {}
    /\ DOMAIN store.vectors # {}

\* C14: add_item(id, v) for an id already present changes only the vector
\* stored for id: the nodes' ids, node_levels, every level's neighbour sets
\* and the entry point stay as they were.
C14_UpdateChangesOnlyVector ==
    \A id \in DOMAIN hnsw_index.nodes : \A l \in Levels, vector \in Vectors :
        add_item(hnsw_index, id, vector, l, IdSeq)
          = [h |-> [hnsw_index EXCEPT !.nodes[id] = vector], err |-> "none"]
\* add_item has just been called for an id the index held, beside another node
C14_Witness ==
    /\ last = [op |-> "update_item", err |-> "none"]
    /\ Cardinality(DOMAIN hnsw_index.nodes) = 2

\* C15: after any sequence of add_vector and remove_vector, opening the
\* collection again on its directory yields the ids, the vector of each id
\* and the metadata of each id that the open collection holds, with no flush
\* or close in between.
C15_ReopenYieldsStore ==
    /\ load_store(disk).vectors = store.vectors
    /\ load_store(disk).metadata = store.metadata
    /\ \A levels \in LevelsFor({}) :
         /\ Collection_init(use_hnsw, disk, levels).c.store.vectors = store.vectors
         /\ Collection_init(use_hnsw, disk, levels).c.store.metadata = store.metadata
\* the collection was just opened on a directory that holds a vector with
\* metadata, after a removal
C15_Witness ==
    /\ last = [op |-> "open", err |-> "none"]
    /\ DOMAIN store.vectors # {}
    /\ DOMAIN store.metadata # {}
    /\ removed # {}

\* C16: opening the store again from its directory yields the dimension it
\* had, also when every vector has been removed.
C16_ReopenKeepsDimension ==
    /\ load_store(disk).dimension = store.dimension
    /\ \A levels \in LevelsFor({}) :
         Collection_init(use_hnsw, disk, levels).c.store.dimension = store.dimension

\* C17: VectorStore.search_similar(q, k, threshold) returns the stored
\* entries whose cosine similarity to q is at least threshold (0 for a
\* zero-norm query or stored vector), by non-increasing similarity, cut to the
\* first k: all of them when k exceeds their number, none on an empty store.
C17_FlatSearchIsReference ==
    \A q \in StoreQueries, k \in StoreKs, threshold \in StoreThresholds :
      (store.keys = <<>> \/ Len(q) = store.dimension) =>
        LET found == VectorStore_search_similar(store, q, k, threshold)
            cos(id) == IF Dot(q, q) = 0 \/ Dot(store.vectors[id], store.vectors[id]) = 0
                       THEN 0
                       ELSE (100 * Dot(q, store.vectors[id]))
                                \div (Norm(q) * Norm(store.vectors[id]))
            qualifying == {id \in DOMAIN store.vectors : cos(id) >= threshold}
            n == Len(found.res)
        IN /\ found.err = "none"
           /\ n = IF k < Cardinality(qualifying) THEN k ELSE Cardinality(qualifying)
           /\ Cardinality(Ids(found.res)) = n
           /\ \A m \in 1..n :
                /\ found.res[m][1] \in qualifying
                /\ found.res[m][2] = cos(found.res[m][1])
                /\ m < n => found.res[m][2] >= found.res[m + 1][2]
                /\ \A id \in qualifying \ Ids(found.res) : cos(id) <= found.res[m][2]
\* search_similar has just returned from a store of three vectors, the zero
\* vector among them
C17_Witness ==
    /\ last = [op |-> "search_similar", err |-> "none"]
    /\ Cardinality(DOMAIN store.vectors) = 3
    /\ \E id \in DOMAIN store.vectors : store.vectors[id] = VZ
    /\ \E id \in DOMAIN store.vectors : store.vectors[id] = VN

\* C18: _matches_filter(metadata, filter) is true exactly when every filter
\* key matches; a key matches if and only if descending the metadata along the
\* key's dot-separated segments passes only through objects, the final segment
\* is present and the value found there equals the filter's value.
C18_FilterIsDottedDescent ==
    last.op # "none" =>
        LET at(d, part) == {kv[2] : kv \in {e \in d : e[1] = part}}
            below(values, part) ==
                UNION {at(v.dict, part) : v \in {w \in values : w.isdict}}
            resolved(parts) ==
                IF Len(parts) = 1 THEN at(last.metadata, parts[1])
                ELSE IF Len(parts) = 2 THEN below(at(last.metadata, parts[1]), parts[2])
                ELSE below(below(at(last.metadata, parts[1]), parts[2]), parts[3])
        IN last.result = (\A kv \in last.filter_query : kv[2] \in resolved(Parts(kv[1])))
\* _matches_filter has returned true for a filter with a dotted key and
\* another key
C18_Witness ==
    /\ last.op = "QueryEngine._matches_filter"
    /\ last.result
    /\ \E kv \in last.filter_query : kv[1] = "user.name"
    /\ Cardinality(last.filter_query) = 2

\* C19: a search with the empty filter {} returns the same list as the same
\* search with no filter: every stored entry, with or without metadata, is
\* eligible.
C19_EmptyFilterIsNoFilter ==
    \A query \in Queries, k \in Ks, threshold \in Thresholds :
      /\ \A ef_search \in EfSearches :
            Collection_search_similar(Coll, query, k, threshold, ef_search, {})
              = Collection_search_similar(Coll, query, k, threshold, ef_search, NoneMeta)
      /\ \A levels \in LevelsFor(DOMAIN store.vectors) :
            QueryEngine_search(Manager, query, k, threshold, {}, levels)
              = QueryEngine_search(Manager, query, k, threshold, NoneMeta, levels)

\* C20: every (id, similarity) returned by a search with a non-empty filter
\* refers to a stored entry whose metadata satisfies every filter key and
\* whose similarity is >= threshold, and at most k entries are returned.
C20_FilteredResultsQualify ==
    \A query \in Queries, k \in Ks, threshold \in EngineThresholds :
      \A levels \in LevelsFor(DOMAIN store.vectors) :
        LET found == QueryEngine_search(Manager, query, k, threshold, MetaRed, levels)
        IN found.err = "none" =>
             /\ Len(found.res) <= k
             /\ \A n \in 1..Len(found.res) :
                  /\ found.res[n][1] \in DOMAIN store.vectors
                  /\ found.res[n][1] \in DOMAIN store.metadata
                  /\ <<"color", Str("red")>> \in store.metadata[found.res[n][1]]
                  /\ found.res[n][2] >= threshold

\* C21: if at least one stored entry of the collection satisfies the filter
\* and has similarity >= threshold, search_similar with that filter and k >= 1
\* returns a non-empty list, and when exactly one entry qualifies the result is
\* that entry alone.
C21_QualifyingIsFound ==
    \A query \in Queries, k \in Ks, threshold \in Thresholds, ef_search \in EfSearches :
        LET qualifying ==
                {id \in DOMAIN store.vectors :
                    /\ Len(store.vectors[id]) = Len(query)
                    /\ id \in DOMAIN store.metadata
                    /\ <<"color", Str("red")>> \in store.metadata[id]
                    /\ Similarity(query, store.vectors[id]) >= threshold}
            found == Collection_search_similar(Coll, query, k, threshold, ef_search, MetaRed)
        IN qualifying # {} =>
             /\ found.err = "none"
             /\ found.res # <<>>
             /\ Cardinality(qualifying) = 1 =>
                    Len(found.res) = 1 /\ Ids(found.res) = qualifying

\* C22: on a collection whose N vectors all have similarity >= threshold to
\* the query, search_similar(q, k) with no filter returns exactly min(k, N)
\* entries with pairwise distinct ids, whatever adds and removes came before.
C22_ReturnsMinKN ==
    \A query \in Queries, k \in Ks, threshold \in Thresholds, ef_search \in EfSearches :
        LET N == Cardinality(DOMAIN store.vectors)
            found == Collection_search_similar(Coll, query, k, threshold, ef_search, NoneMeta)
        IN (\A id \in DOMAIN store.vectors :
               /\ Len(store.vectors[id]) = Len(query)
               /\ Similarity(query, store.vectors[id]) >= threshold) =>
             /\ found.err = "none"
             /\ Len(found.res) = Min(k, N)
             /\ Cardinality(Ids(found.res)) = Len(found.res)

\* C23: QueryEngine.search with no filter over an IndexManager with
\* use_hnsw = False returns the list of a flat cosine search over the store's
\* current contents, after any adds, replacements and removes between searches.
C23_EngineIsFlatSearch ==
    ~use_hnsw =>
      \A query \in Queries, k \in Ks, threshold \in EngineThresholds :
        \A levels \in LevelsFor({}) :
          LET found == QueryEngine_search(Manager, query, k, threshold, NoneMeta, levels)
          IN [err |-> found.err, res |-> found.res]
               = VectorStore_search_similar(store, query, k, threshold)

\* C24: every (id, similarity) returned by IndexManager.search satisfies
\* similarity >= threshold, on the HNSW path as on the flat path, for every
\* threshold, 0 and negative values included.
C24_ResultsReachThreshold ==
    \A query \in Queries, k \in Ks, threshold \in EngineThresholds :
        LET found == IndexManager_search(Manager, query, k, threshold)
        IN \A n \in 1..Len(found.res) : found.res[n][2] >= threshold

\* C25: after add_vector(id, v, m) returns, get_vector_with_metadata(id)
\* returns (v, m), m being the metadata argument of that call (None when it
\* gave none), regardless of what was stored under id before.
C25_AddStoresVectorAndMetadata ==
    \A id \in StoredIDs, metadata \in EngineMetadatas :
      \A vector \in EngineVectors(id) :
        LET added == BinaryVectorStore_add_vector(store, disk, id, vector, metadata)
        IN added.err = "none" =>
             /\ id \in DOMAIN added.s.vectors
             /\ added.s.vectors[id] = vector
             /\ metadata_get(added.s, id) = metadata

\* C26: create_collection(name) for a name that already exists, loaded in
\* memory or only recorded in the manifest, raises ValueError and leaves the
\* manifest, the handles and the collection's vectors and files unchanged.
C26_CreateExistingRaises ==
    \A name \in DOMAIN collections \cup DOMAIN collections_metadata :
      \A use_hnsw_arg \in UseHnswArgs, hnsw_params_arg \in ParamsArgs :
        \A levels \in LevelsFor({"a"}) :
          create_collection(Mgr, name, use_hnsw_arg, hnsw_params_arg, levels)
            = [m |-> Mgr, err |-> "ValueError"]
\* create_collection has just raised for a collection that holds a vector and
\* is recorded in the manifest only
C26_Witness ==
    /\ last.op = "create_collection"
    /\ last.err = "ValueError"
    /\ last.name \in DOMAIN collections_metadata \ DOMAIN collections
    /\ dirs[last.name].keys # <<>>

\* C27: after any create_collection and delete_collection calls,
\* list_collections() returns exactly the names created and not deleted
\* since, and a new CollectionManager opened on the same base directory lists
\* the same names with the same use_hnsw flag and hnsw_params for each.
C27_ListIsCreatedNames ==
    /\ list_collections(Mgr) = DOMAIN created
    /\ LET opened == CollectionManager_init(manifest)
       IN /\ DOMAIN opened.collections_metadata = DOMAIN created
          /\ \A name \in DOMAIN created :
               /\ opened.collections_metadata[name].use_hnsw = created[name].use_hnsw
               /\ opened.collections_metadata[name].hnsw_params = created[name].hnsw_params
\* a manager has just been opened on a base directory where one collection
\* was created with its own flag and parameters and another one was deleted
C27_Witness ==
    /\ last.op = "open"
    /\ DOMAIN created = {"y"}
    /\ created["y"].use_hnsw # use_hnsw
    /\ created["y"].hnsw_params # DefaultParams
    /\ collections = EmptyDict

\* C28: after delete_collection(name) returns, get_collection(name) raises
\* KeyError, name is absent from list_collections(), the collection's
\* directory is gone and a later create_collection(name) yields a collection
\* with zero vectors; delete_collection of an unknown name raises KeyError and
\* changes nothing.
C28_DeletedIsGone ==
    \A name \in Names :
      LET deleted == delete_collection(Mgr, name)
      IN IF name \notin DOMAIN collections_metadata
         THEN deleted = [m |-> Mgr, err |-> "KeyError"]
         ELSE /\ deleted.err = "none"
              /\ name \notin list_collections(deleted.m)
              /\ name \notin DOMAIN deleted.m.dirs
              /\ \A levels \in LevelsFor({"a"}) :
                   /\ get_collection(deleted.m, name, levels) = [m |-> deleted.m, err |-> "KeyError"]
                   /\ \A use_hnsw_arg \in UseHnswArgs, hnsw_params_arg \in ParamsArgs :
                        LET again == create_collection(deleted.m, name, use_hnsw_arg,
                                                       hnsw_params_arg, levels)
                        IN /\ again.err = "none"
                           /\ again.m.collections[name].store.vectors = EmptyDict
                           /\ again.m.dirs[name] = NoDisk
\* delete_collection has just returned for a collection that held a vector
C28_Witness ==
    /\ last.op = "delete_collection"
    /\ last.err = "none"
    /\ last.held > 0
    /\ last.name \notin DOMAIN dirs

\* C29: when writing the vectors blob or the metadata sidecar fails during
\* add_vector or remove_vector, the call raises instead of returning as if the
\* mutation had been persisted.
C29_FailedWriteRaises ==
    last.failed => last.err # "none"

\* C30: constructing a BinaryVectorStore over a directory whose metadata
\* sidecar or vectors blob cannot be decoded does not raise: the store starts
\* with no vectors, no metadata and no dimension, and accepts new insertions.
C30_CorruptDirectoryLoadsEmpty ==
    (disk.bad_metadata \/ disk.bad_vectors) =>
        /\ load_store(disk) = NewStore
        /\ \A id \in StoredIDs, metadata \in Metadatas :
             \A vector \in AddedVectors(id) :
               LET added == BinaryVectorStore_add_vector(load_store(disk), disk, id,
                                                         vector, metadata)
               IN /\ added.err = "none"
                  /\ DOMAIN added.s.vectors = {id}
                  /\ load_store(added.disk) = added.s
\* a store has just been constructed over a directory whose blob cannot be
\* decoded and whose sidecar holds metadata
C30_Witness ==
    /\ last.op = "open"
    /\ disk.bad_vectors
    /\ ~disk.bad_metadata
    /\ disk.metadata # EmptyDict
    /\ store = NewStore

\* C31: constructing a PersistentVectorStore over an existing file that
\* cannot be decoded does not raise, and the store starts empty and usable.
C31_CorruptFileLoadsEmpty ==
    (disk.exists /\ disk.bad) =>
        /\ PersistentVectorStore_load(disk).err = "none"
        /\ PersistentVectorStore_load(disk).s = NewStore
        /\ (last.op = "open" => last.held)

\* C32: the filter matcher compares the resolved metadata value with the
\* filter value without type coercion: when _matches_filter returns true, on
\* QueryEngine and on Collection, the value found at each filter key has the
\* JSON type of the filter's value (boolean true and the number 1 never
\* match), nested values included.
C32_NoTypeCoercion ==
    (last.op # "none" /\ last.result) =>
        \A kv \in last.filter_query :
            LET w == Walk(last.metadata, SubSeq(Parts(kv[1]), 1, Len(Parts(kv[1])) - 1))
                found == Get(w.current, Parts(kv[1])[Len(Parts(kv[1]))])
            IN /\ JSONType(found) = JSONType(kv[2])
               /\ found.isdict =>
                     \A e \in found.dict, f \in kv[2].dict :
                         e[1] = f[1] => JSONType(e[2]) = JSONType(f[2])

\* C33: in the vector_db CommandInterface, after any sequence of VADD and VDEL
\* commands the store holds exactly the keys added and not deleted since:
\* VCOUNT returns their number, VDEL returns "1" exactly when the key was
\* present and "0" otherwise, and VGET returns "(nil)" exactly for the keys
\* not in that set.
C33_StoreIsAddedNotDeleted ==
    /\ DOMAIN store.vectors = last.live
    /\ last.op = "VCOUNT" => last.reply = StrOfInt(Cardinality(last.live))
    /\ (last.op = "VDEL" /\ last.key # "") =>
            last.reply = (IF last.was THEN "1" ELSE "0")
    /\ (last.op = "VGET" /\ last.key # "") =>
            (last.reply = "(nil)" <=> last.key \notin last.live)
    /\ \A key \in Tokens :
            (cmd_vector_get(store, <<key>>).reply = "(nil)") <=> key \notin last.live
\* a VDEL of a key the store held has answered "1" while another key
\* stays
C33_Witness ==
    /\ last.op = "VDEL"
    /\ last.was
    /\ last.reply = "1"
    /\ Cardinality(last.live) = 1
    /\ last.key \notin last.live

\* C34: for collections of at most 1,000 vectors the ids HNSW search returns
\* for k = 10 share, on average over the queries, at least 7 in 10 of the
\* members of the flat (exact) top 10: recall >= 0.7.  Here the collection
\* holds at most three vectors, so the exact top 10 is the whole store.
C34_HnswRecall ==
    LET exact(query) == Ids(VectorStore_search_similar(store, query, 10, -100).res)
        shared(query) ==
            Ids(search(hnsw_index, query, 10, NoneInt, IdSeq).res) \cap exact(query)
    IN (/\ use_hnsw
        /\ hnsw_index.built
        /\ store.keys # <<>>
        /\ \A id \in DOMAIN store.vectors : Len(store.vectors[id]) = 2) =>
          10 * (Cardinality(shared(VX)) + Cardinality(shared(VD)))
            >= 7 * (Cardinality(exact(VX)) + Cardinality(exact(VD)))

\* C35: after add_item inserts a new id into a non-empty index, at every level
\* from min(l, ep_level) down to 0 (l the new node's level, ep_level the entry
\* point's level before the insertion) the new node's neighbour set contains
\* at least one node other than itself.
C35_NewNodeIsLinked ==
    [][\A id \in IDs \ DOMAIN hnsw_index.nodes, l \in Levels :
        LET r == add_item(hnsw_index, id, VectorOf(id), l, IdSeq) IN
        (/\ hnsw_index.ep \in DOMAIN hnsw_index.nodes
         /\ r.err = "none"
         /\ hnsw_index' = r.h)
        => \A level \in 0..Min(l, hnsw_index.node_levels[hnsw_index.ep]) :
              /\ id \in DOMAIN r.h.graphs[level]
              /\ r.h.graphs[level][id] \ {id} # {}]_vars

\* C36: after every add_item and remove_item, every node present in the index
\* has a neighbour set (possibly empty) recorded at every level from 0 up to
\* its own level in node_levels, also a node whose level exceeded the entry
\* point's level when it was inserted.
C36_NeighborSetAtEveryLevel ==
    \A n \in DOMAIN hnsw_index.nodes :
        \A level \in 0..hnsw_index.node_levels[n] :
            n \in DOMAIN hnsw_index.graphs[level]

\* C38: after any sequence of add_item and remove_item calls, no node is
\* listed in its own neighbour set at any level of the graph.
C38_NoSelfLoop ==
    \A level \in Levels :
        \A n \in DOMAIN hnsw_index.graphs[level] : n \notin hnsw_index.graphs[level][n]

\* C39: after IndexManager.update_index() returns, the set of indexed ids (the
\* rows of the flat matrix and, when HNSW is enabled, the nodes of the HNSW
\* index) equals the set of ids currently in the store, also when the store
\* has become empty after having been indexed.
C39_UpdateIndexesTheStore ==
    \A levels \in LevelsFor(DOMAIN store.vectors) :
        LET r == update_index(Manager, levels) IN
        r.err = "none" =>
            /\ {r.im.indexed_ids[n] : n \in 1..Len(r.im.indexed_ids)} = DOMAIN store.vectors
            /\ Len(r.im.index.rows) = Cardinality(DOMAIN store.vectors)
            /\ use_hnsw => DOMAIN r.im.hnsw_index.nodes = DOMAIN store.vectors

\* C37: the TCP server serializes operations on its shared store and index:
\* at no time do two client-handler threads execute a store or index
\* operation concurrently.
C37_OperationsSerialized ==
    \A t \in Clients : \A u \in Clients \ {t} :
        ~(/\ threads[t].pc \in {"update_index", "create_index", "collect", "normalize",
                                "_create_hnsw_index"}
          /\ threads[u].pc \in {"update_index", "create_index", "collect", "normalize",
                                "_create_hnsw_index"})

====
